---- MODULE Spec2Model ----
(***************************************************************************)
(* Model of the analytics core of the Elevate study dashboard:             *)
(* gamification.py (XP, levels, level progress) and utils.py (streaks).    *)
(*                                                                         *)
(* Calendar dates are integers (day numbers); timedelta(days=1) is 1.      *)
(* Python floats are IEEE-754 binary64 values.  They are modelled exactly: *)
(* a float is a record [m, e] standing for m * 2^e, m a natural number of  *)
(* at most 53 significant bits held as a sequence of 15-bit limbs (TLC's   *)
(* integers are 32 bits wide), and every arithmetic operation rounds its   *)
(* exact result to nearest, ties to even, as the hardware does.            *)
(***************************************************************************)
EXTENDS Integers, Naturals, Sequences, FiniteSets, TLC

(***************************************************************************)
(* Natural numbers of arbitrary size: little-endian sequences of limbs in  *)
(* 0..LimbBase-1 without high zero limbs (<<>> is zero).                   *)
(***************************************************************************)
LimbBits == 15
LimbBase == 2 ^ LimbBits

RECURSIVE BigNorm(_)
BigNorm(a) ==
    IF a = <<>> THEN <<>>
    ELSE IF a[Len(a)] = 0 THEN BigNorm(SubSeq(a, 1, Len(a) - 1))
    ELSE a

RECURSIVE BigFromInt(_)
BigFromInt(n) ==
    IF n = 0 THEN <<>>
    ELSE <<n % LimbBase>> \o BigFromInt(n \div LimbBase)

RECURSIVE BigToInt(_)
BigToInt(a) ==
    IF a = <<>> THEN 0
    ELSE Head(a) + LimbBase * BigToInt(Tail(a))

RECURSIVE BigAddC(_, _, _)
BigAddC(a, b, carry) ==
    IF a = <<>> /\ b = <<>>
    THEN IF carry = 0 THEN <<>> ELSE <<carry>>
    ELSE LET x == IF a = <<>> THEN 0 ELSE Head(a)
             y == IF b = <<>> THEN 0 ELSE Head(b)
             s == x + y + carry
         IN  <<s % LimbBase>> \o
             BigAddC(IF a = <<>> THEN <<>> ELSE Tail(a),
                     IF b = <<>> THEN <<>> ELSE Tail(b),
                     s \div LimbBase)

BigAdd(a, b) == BigAddC(a, b, 0)

RECURSIVE BigMulLimbC(_, _, _)
BigMulLimbC(a, d, carry) ==
    IF a = <<>>
    THEN IF carry = 0 THEN <<>> ELSE <<carry>>
    ELSE LET p == Head(a) * d + carry
         IN  <<p % LimbBase>> \o BigMulLimbC(Tail(a), d, p \div LimbBase)

\* a * d for one limb d
BigMulLimb(a, d) == BigNorm(BigMulLimbC(a, d, 0))

RECURSIVE BigMul(_, _)
BigMul(a, b) ==
    IF a = <<>> \/ b = <<>> THEN <<>>
    ELSE LET rest == BigMul(a, Tail(b))
         IN  BigAdd(BigMulLimb(a, Head(b)),
                    IF rest = <<>> THEN <<>> ELSE <<0>> \o rest)

RECURSIVE IntBits(_)
IntBits(n) == IF n = 0 THEN 0 ELSE 1 + IntBits(n \div 2)

\* number of significant bits of a
BigBits(a) ==
    IF a = <<>> THEN 0
    ELSE LimbBits * (Len(a) - 1) + IntBits(a[Len(a)])

\* bit k (0 = least significant) of a
BigBit(a, k) ==
    LET i == (k \div LimbBits) + 1
    IN  IF i > Len(a) THEN 0 ELSE (a[i] \div (2 ^ (k % LimbBits))) % 2

\* a * 2^k
BigShl(a, k) ==
    IF a = <<>> THEN <<>>
    ELSE [i \in 1..(k \div LimbBits) |-> 0] \o BigMulLimb(a, 2 ^ (k % LimbBits))

\* floor(a / 2^k)
BigShr(a, k) ==
    LET drop == k \div LimbBits
        r    == k % LimbBits
        n    == Len(a) - drop
        limb(i) == IF i > Len(a) THEN 0 ELSE a[i]
    IN  IF n <= 0 THEN <<>>
        ELSE BigNorm([i \in 1..n |->
                 (limb(i + drop) \div (2 ^ r))
                 + (limb(i + drop + 1) % (2 ^ r)) * (2 ^ (LimbBits - r))])

\* the low k bits of a are all zero
BigLowZero(a, k) == BigShl(BigShr(a, k), k) = a

RECURSIVE BigLessFrom(_, _, _)
BigLessFrom(a, b, i) ==
    IF i = 0 THEN FALSE
    ELSE IF a[i] /= b[i] THEN a[i] < b[i]
    ELSE BigLessFrom(a, b, i - 1)

BigLess(a, b) ==
    IF Len(a) /= Len(b) THEN Len(a) < Len(b)
    ELSE BigLessFrom(a, b, Len(a))

\* <<floor(a / d), a mod d>> for a divisor d of one limb, from the high limb down
RECURSIVE BigDivSmallFrom(_, _, _, _)
BigDivSmallFrom(a, d, i, rem) ==
    IF i = 0 THEN <<<<>>, rem>>
    ELSE LET cur  == rem * LimbBase + a[i]
             rest == BigDivSmallFrom(a, d, i - 1, cur % d)
         IN  <<rest[1] \o <<cur \div d>>, rest[2]>>

BigDivSmall(a, d) ==
    LET r == BigDivSmallFrom(a, d, Len(a), 0)
    IN  <<BigNorm(r[1]), r[2]>>

(***************************************************************************)
(* IEEE-754 binary64, non-negative finite values in the normal range.      *)
(***************************************************************************)
MantissaBits == 53

\* m * 2^e rounded to 53 significant bits, to nearest, ties to even
FRound(m, e) ==
    LET n == BigBits(m)
        k == n - MantissaBits
    IN  IF k <= 0 THEN [m |-> m, e |-> e]
        ELSE LET q      == BigShr(m, k)
                 half   == BigBit(m, k - 1) = 1
                 sticky == ~BigLowZero(m, k - 1)
                 odd    == BigBit(q, 0) = 1
                 up     == half /\ (sticky \/ odd)
             IN  [m |-> IF up THEN BigAdd(q, <<1>>) ELSE q, e |-> e + k]

\* an int that a float holds exactly
FromInt(n) == [m |-> BigFromInt(n), e |-> 0]

FMul(x, y) == FRound(BigMul(x.m, y.m), x.e + y.e)

FAlign(x, e) == BigShl(x.m, x.e - e)

FAdd(x, y) ==
    LET e == IF x.e < y.e THEN x.e ELSE y.e
    IN  FRound(BigAdd(FAlign(x, e), FAlign(y, e)), e)

FLess(x, y) ==
    LET e == IF x.e < y.e THEN x.e ELSE y.e
    IN  BigLess(FAlign(x, e), FAlign(y, e))

\* Python's min(x, y): y only when y < x
FMin(x, y) == IF FLess(y, x) THEN y ELSE x

GuardBits == 70

\* p / q for ints p >= 0 and 0 < q < LimbBase: the correctly rounded quotient.
\* The quotient is taken to GuardBits fractional bits and a last bit records
\* a non-zero remainder, so the rounding sees the exact value.
FDiv(p, q) ==
    LET qr == BigDivSmall(BigShl(BigFromInt(p), GuardBits), q)
        m2 == BigAdd(BigShl(qr[1], 1), IF qr[2] = 0 THEN <<>> ELSE <<1>>)
    IN  FRound(m2, 0 - (GuardBits + 1))

\* int(x) for x >= 0: truncation
FTrunc(x) ==
    IF x.e >= 0 THEN BigToInt(BigShl(x.m, x.e))
    ELSE BigToInt(BigShr(x.m, 0 - x.e))

\* round(x, 1) for x >= 0, as the integer number of tenths t (the float returned
\* is the one nearest to t/10): x*10 rounded to an integer, ties to even, on
\* the exact binary value of x.
FRoundTenths(x) ==
    LET m10 == BigMulLimb(x.m, 10)
    IN  IF x.e >= 0 THEN BigToInt(BigShl(m10, x.e))
        ELSE LET k      == 0 - x.e
                 q      == BigShr(m10, k)
                 half   == BigBit(m10, k - 1) = 1
                 sticky == ~BigLowZero(m10, k - 1)
                 odd    == BigBit(q, 0) = 1
             IN  BigToInt(q) + (IF half /\ (sticky \/ odd) THEN 1 ELSE 0)

\* a decimal literal n/d (0.7 is FDec(7, 10)): the float nearest to it
FDec(n, d) == FDiv(n, d)

\* a - b for a >= b
RECURSIVE BigSubB(_, _, _)
BigSubB(a, b, borrow) ==
    IF a = <<>> THEN <<>>
    ELSE LET bd == IF b = <<>> THEN 0 ELSE Head(b)
             d  == Head(a) - bd - borrow
         IN  <<IF d < 0 THEN d + LimbBase ELSE d>>
             \o BigSubB(Tail(a), IF b = <<>> THEN <<>> ELSE Tail(b),
                        IF d < 0 THEN 1 ELSE 0)

BigSub(a, b) == BigNorm(BigSubB(a, b, 0))

FZero == [m |-> <<>>, e |-> 0]

\* x - y for x >= y >= 0
FSub(x, y) ==
    LET e == IF x.e < y.e THEN x.e ELSE y.e
    IN  FRound(BigSub(FAlign(x, e), FAlign(y, e)), e)

\* x / q for a float x >= 0 and an int 0 < q < LimbBase, correctly rounded
FDivInt(x, q) ==
    LET qr == BigDivSmall(BigShl(x.m, GuardBits), q)
        m2 == BigAdd(BigShl(qr[1], 1), IF qr[2] = 0 THEN <<>> ELSE <<1>>)
    IN  FRound(m2, x.e - (GuardBits + 1))

\* x / 2^k (exact in the normal range)
FScale(x, k) == [m |-> x.m, e |-> x.e - k]

\* rint(x) for x >= 0 as an int: nearest integer, ties to even
FRint(x) ==
    IF x.e >= 0 THEN BigToInt(BigShl(x.m, x.e))
    ELSE LET k      == 0 - x.e
             q      == BigShr(x.m, k)
             half   == BigBit(x.m, k - 1) = 1
             sticky == ~BigLowZero(x.m, k - 1)
             odd    == BigBit(q, 0) = 1
         IN  BigToInt(q) + (IF half /\ (sticky \/ odd) THEN 1 ELSE 0)

(***************************************************************************)
(* Signed floats: [neg, abs] stands for -abs when neg, else abs (abs is a  *)
(* non-negative float; zero is never neg here, the code only compares).    *)
(***************************************************************************)
\* x - y for non-negative floats x and y
FDiff(x, y) ==
    IF FLess(x, y) THEN [neg |-> TRUE, abs |-> FSub(y, x)]
    ELSE [neg |-> FALSE, abs |-> FSub(x, y)]

\* s < -c  and  s > c  for a signed float s and a float c >= 0
SLessNeg(s, c) == s.neg /\ FLess(c, s.abs)
SGreater(s, c) == ~s.neg /\ FLess(c, s.abs)

FIsZero(x) == ~FLess(FZero, x)

\* the signed float of an int
SFromInt(n) == [neg |-> n < 0, abs |-> FromInt(IF n < 0 THEN 0 - n ELSE n)]

\* a signed float with the sign of zero cleared
SNorm(s) == IF FIsZero(s.abs) THEN [neg |-> FALSE, abs |-> s.abs] ELSE s

SNeg(s) == SNorm([neg |-> ~s.neg, abs |-> s.abs])

\* s + t, s - t and s < t for signed floats
SAdd(s, t) ==
    IF s.neg = t.neg THEN SNorm([neg |-> s.neg, abs |-> FAdd(s.abs, t.abs)])
    ELSE IF s.neg THEN FDiff(t.abs, s.abs)
    ELSE FDiff(s.abs, t.abs)

SSub(s, t) == SAdd(s, SNeg(t))

SLess(s, t) ==
    IF s.neg /\ ~t.neg THEN TRUE
    ELSE IF ~s.neg /\ t.neg THEN FALSE
    ELSE IF s.neg THEN FLess(t.abs, s.abs)
    ELSE FLess(s.abs, t.abs)

\* x * s for a float x >= 0 and a signed float s
SMul(x, s) == SNorm([neg |-> s.neg, abs |-> FMul(x, s.abs)])

\* a float x > 0 with its mantissa on MantissaBits bits
FNormal(x) ==
    LET shift == MantissaBits - BigBits(x.m)
    IN  [m |-> BigShl(x.m, shift), e |-> x.e - shift]

\* the floats next above and next below a float x > 0
FNext(x) == LET n == FNormal(x) IN FRound(BigAdd(n.m, <<1>>), n.e)

FPrev(x) ==
    LET n == FNormal(x)
    IN  IF n.m = BigShl(<<1>>, MantissaBits - 1)
        THEN [m |-> BigSub(BigShl(<<1>>, MantissaBits), <<1>>), e |-> n.e - 1]
        ELSE [m |-> BigSub(n.m, <<1>>), e |-> n.e]

\* the float k places above (k > 0) or below (k < 0) a float x; zero stays
RECURSIVE FNudge(_, _)
FNudge(x, k) ==
    IF k = 0 \/ FIsZero(x) THEN x
    ELSE IF k > 0 THEN FNudge(FNext(x), k - 1)
    ELSE FNudge(FPrev(x), k + 1)

\* f"{x:.2f}" of a float x >= 0, as the integer number of hundredths: the
\* exact binary value of x times 100 rounded to an integer, ties to even
FHundredths(x) ==
    LET m100 == BigMulLimb(x.m, 100)
    IN  IF x.e >= 0 THEN BigToInt(BigShl(m100, x.e))
        ELSE LET k      == 0 - x.e
                 q      == BigShr(m100, k)
                 half   == BigBit(m100, k - 1) = 1
                 sticky == ~BigLowZero(m100, k - 1)
                 odd    == BigBit(q, 0) = 1
             IN  BigToInt(q) + (IF half /\ (sticky \/ odd) THEN 1 ELSE 0)

(***************************************************************************)
(* Bounds of the model and the inputs drawn by the specifications.         *)
(***************************************************************************)
MaxDay == 1
MaxLog == 3
MaxCalendarDay == 3
MaxDates == 4
MaxDuration == 240
MaxStreak == 7
MaxXp == 15310
XpBelow == 3
MaxGap == 2
MaxTopicSessions == 3
MaxTopicGap == 2
MaxExpenses == 5
MaxExpenseGap == 2
MaxForecastDays == 1
MaxLstsqUlps == 4
MaxVariedExpenses == 1
MaxAchievementSessions == 31
MaxGeneralSessions == 2
MaxOrderRows == 3
MaxTrendDays == 9
MaxSignalDays == 9
MaxClock == 1
MaxTimers == 2
MaxSessionRows == 2
MaxSameDaySessions == 2

\* the days of the sessions of the log specification, the last one today
Days == 0..MaxDay
\* the days of the date columns calculate_streak is called on
CalendarDays == 0..MaxCalendarDay
\* the ratings of the confidence slider
Ratings == 1..5
\* the durations of the sessions of the log specification: the smallest the
\* forms accept and the 45 minute choice of the live tracker
LoggedDurations == {1, 45}

\* the ratings of the sessions the log specification appends
LoggedRatings == {1, 3, 5}

(***************************************************************************)
(* GamificationSystem (gamification.py)                                    *)
(***************************************************************************)
base_xp_per_minute == 2

confidence_multiplier ==
    [c \in 1..5 |->
        CASE c = 1 -> FDec(5, 10)
          [] c = 2 -> FDec(7, 10)
          [] c = 3 -> FDec(10, 10)
          [] c = 4 -> FDec(13, 10)
          [] c = 5 -> FDec(15, 10)]

streak_bonus_multiplier == FDec(1, 10)

\* the float literals 1.0 (default multiplier) and 0.5 (streak bonus cap) of
\* calculate_session_xp, and the ints 1 and 100 where float arithmetic uses them
default_multiplier == FDec(10, 10)
streak_bonus_cap == FDec(5, 10)
FOne == FromInt(1)
FHundred == FromInt(100)

level_thresholds ==
    <<0, 100, 250, 450, 700, 1000, 1400, 1850, 2350, 2900, 3500,
      4200, 5000, 5900, 6900, 8000, 9200, 10500, 12000, 13600, 15300>>

Max(a, b) == IF a >= b THEN a ELSE b

Abs(a) == IF a < 0 THEN 0 - a ELSE a

\* total_xp of calculate_session_xp, before the minimum is applied, for
\* duration_minutes >= 0 and streak_days >= 0
session_total_xp(duration_minutes, confidence_rating, streak_days) ==
    LET base_xp == duration_minutes * base_xp_per_minute
        confidence_bonus ==
            IF confidence_rating \in DOMAIN confidence_multiplier
            THEN confidence_multiplier[confidence_rating]
            ELSE default_multiplier
        streak_bonus ==
            FMin(streak_bonus_cap, FMul(FromInt(streak_days), streak_bonus_multiplier))
    IN  FTrunc(FMul(FMul(FromInt(base_xp), confidence_bonus),
                    FAdd(FOne, streak_bonus)))

\* calculate_session_xp returning total_xp without the minimum of 5
calculate_session_xp_no_minimum(duration_minutes, confidence_rating, streak_days) ==
    session_total_xp(Max(0, duration_minutes), confidence_rating, streak_days)

\* the body of calculate_session_xp for streak_days >= 0.  A duration <= 0
\* makes the product <= 0, so int() of it is <= 0 and max(5, .) returns 5.
session_xp(duration_minutes, confidence_rating, streak_days) ==
    IF duration_minutes <= 0 THEN 5
    ELSE Max(5, session_total_xp(duration_minutes, confidence_rating, streak_days))

\* TLC evaluates an operator anew at every use.  The results of session_xp
\* for the sessions the log specification draws are tabulated once, as
\* tuples <<duration, rating, streak, xp>>; every streak of that
\* specification is at most the number of days.
session_xp_table ==
    {<<d, c, k, session_xp(d, c, k)>> :
        d \in LoggedDurations, c \in Ratings, k \in 0..(MaxDay + 1)}

\* calculate_session_xp: the tabulated result where there is one, the
\* computation otherwise
calculate_session_xp(duration_minutes, confidence_rating, streak_days) ==
    LET tabulated ==
            {e \in session_xp_table :
                /\ e[1] = duration_minutes
                /\ e[2] = confidence_rating
                /\ e[3] = streak_days}
    IN  IF tabulated /= {} THEN (CHOOSE e \in tabulated : TRUE)[4]
        ELSE session_xp(duration_minutes, confidence_rating, streak_days)

\* get_level: the index (from 0) of the first threshold above total_xp, at
\* least 1; the number of thresholds when none is above
\* get_level_from comparing with <= instead of <
RECURSIVE get_level_from_le(_, _)
get_level_from_le(total_xp, level) ==
    IF level >= Len(level_thresholds) THEN Len(level_thresholds)
    ELSE IF total_xp <= level_thresholds[level + 1] THEN Max(1, level)
    ELSE get_level_from_le(total_xp, level + 1)

RECURSIVE get_level_from(_, _)
get_level_from(total_xp, level) ==
    IF level >= Len(level_thresholds) THEN Len(level_thresholds)
    ELSE IF total_xp < level_thresholds[level + 1] THEN Max(1, level)
    ELSE get_level_from(total_xp, level + 1)

\* get_level counting the levels of the loop from 1 instead of 0
get_level_counting_from_one(total_xp) ==
    IF total_xp >= level_thresholds[Len(level_thresholds)]
    THEN Len(level_thresholds)
    ELSE get_level_from(total_xp, 0) + 1

get_level(total_xp) == get_level_from(total_xp, 0)

\* current_threshold measured from 0 in every level
level_current_threshold_zero(current_level) == 0

\* current_threshold of get_level_progress
level_current_threshold(current_level) ==
    IF current_level > 1 THEN level_thresholds[current_level] ELSE 0

\* the percentage cut to one decimal instead of rounded
progress_truncated(progress_xp, required_xp) ==
    FTrunc(FMul(FMul(FDiv(Abs(progress_xp), required_xp), FHundred), FromInt(10)))

\* round((progress_xp / required_xp) * 100, 1) in tenths, for progress_xp >= 0
progress_rounded(progress_xp, required_xp) ==
    FRoundTenths(FMul(FDiv(progress_xp, required_xp), FHundred))

\* get_level_progress; progress is in tenths of a percent
\* (round(., 1) returns a float with one decimal)
get_level_progress(total_xp) ==
    LET current_level == get_level(total_xp)
    IN  IF current_level >= Len(level_thresholds)
        THEN [current_level |-> current_level, progress |-> 100 * 10,
              xp_to_next |-> 0]
        ELSE LET current_threshold == level_current_threshold(current_level)
                 next_threshold == level_thresholds[current_level + 1]
                 progress_xp == total_xp - current_threshold
                 required_xp == next_threshold - current_threshold
                 \* division, multiplication and rounding are symmetric in the sign
                 magnitude == progress_rounded(Abs(progress_xp), required_xp)
             IN  [current_level |-> current_level,
                  progress |-> IF progress_xp < 0 THEN 0 - magnitude ELSE magnitude,
                  xp_to_next |-> next_threshold - total_xp,
                  current_xp |-> progress_xp,
                  required_xp |-> required_xp]

(***************************************************************************)
(* Streaks: utils.calculate_streak and                                     *)
(* GamificationSystem._calculate_streak_for_date.  Both read only the      *)
(* 'date' column of the table, passed here as a sequence of day numbers.   *)
(***************************************************************************)
Range(s) == {s[i] : i \in 1..Len(s)}

SetMax(S) == CHOOSE m \in S : \A x \in S : x <= m

\* sorted(unique dates, reverse=True)
RECURSIVE SortedDesc(_)
SortedDesc(S) ==
    IF S = {} THEN <<>>
    ELSE <<SetMax(S)>> \o SortedDesc(S \ {SetMax(S)})

\* the loop of calculate_streak from position i of dates
RECURSIVE streak_loop(_, _, _, _)
streak_loop(dates, i, current_date, streak) ==
    IF i > Len(dates) THEN streak
    ELSE IF dates[i] = current_date
         THEN streak_loop(dates, i + 1, current_date - 1, streak + 1)
         ELSE streak

\* calculate_streak counting from the most recent date whatever it is
calculate_streak_from_latest(date_column, now) ==
    LET dates == SortedDesc(Range(date_column))
    IN  IF date_column = <<>> THEN 0
        ELSE streak_loop(dates, 1, dates[1], 0)

calculate_streak(date_column, now) ==
    LET dates == SortedDesc(Range(date_column))
        yesterday == now - 1
    IN  IF date_column = <<>> THEN 0
        ELSE IF dates[1] = now THEN streak_loop(dates, 1, now, 0)
        ELSE IF dates[1] = yesterday THEN streak_loop(dates, 1, yesterday, 0)
        ELSE 0

\* the loop of _calculate_streak_for_date from position i of study_dates
RECURSIVE streak_for_date_loop(_, _, _, _)
streak_for_date_loop(study_dates, i, current_date, streak) ==
    IF i > Len(study_dates) THEN streak
    ELSE IF study_dates[i] = current_date - 1
         THEN streak_for_date_loop(study_dates, i + 1, study_dates[i], streak + 1)
         ELSE streak

\* _calculate_streak_for_date without the restriction to dates <= target_date
streak_for_date_unfiltered(date_column, target_date) ==
    LET study_dates == SortedDesc(Range(date_column))
    IN  IF study_dates = <<>> \/ study_dates[1] /= target_date THEN 0
        ELSE streak_for_date_loop(study_dates, 2, study_dates[1], 1)

\* _calculate_streak_for_date without the test that the latest of the dates
\* is target_date
streak_for_date_from_latest(date_column, target_date) ==
    LET study_dates ==
            SortedDesc({d \in Range(date_column) : d <= target_date})
    IN  IF study_dates = <<>> THEN 0
        ELSE streak_for_date_loop(study_dates, 2, study_dates[1], 1)

_calculate_streak_for_date(date_column, target_date) ==
    LET study_dates ==
            SortedDesc({d \in Range(date_column) : d <= target_date})
    IN  IF study_dates = <<>> \/ study_dates[1] /= target_date THEN 0
        ELSE streak_for_date_loop(study_dates, 2, study_dates[1], 1)

\* the 'date' column of a session table
DateColumn(data) == [i \in 1..Len(data) |-> data[i].date]

\* the loop of calculate_total_xp from row i
RECURSIVE total_xp_loop(_, _, _)
total_xp_loop(data, i, acc) ==
    IF i > Len(data) THEN acc
    ELSE total_xp_loop(data, i + 1,
             acc + calculate_session_xp(
                       data[i].duration_minutes,
                       data[i].confidence_rating,
                       _calculate_streak_for_date(DateColumn(data), data[i].date)))

\* calculate_total_xp with the reward of the first_session achievement added
calculate_total_xp_with_bonus(data) ==
    IF data = <<>> THEN 0 ELSE total_xp_loop(data, 1, 0) + 25

calculate_total_xp(data) ==
    IF data = <<>> THEN 0 ELSE total_xp_loop(data, 1, 0)

(***************************************************************************)
(* Tables.  A table (DataFrame) is a record                                *)
(*   rows        the rows in index order; a study row has the fields       *)
(*               subject, chapter, date, duration_minutes and              *)
(*               confidence_rating, an expense row date and amount         *)
(*   columns     the names of the columns                                  *)
(*   date_dtype  what the 'date' column holds: "date" for datetime.date    *)
(*               objects (as DataManager loads it), "datetime64" for       *)
(*               pandas Timestamps                                         *)
(* Subject and chapter names are free text; the model orders them as       *)
(* Python orders strings with the two sequences below.                     *)
(***************************************************************************)
SubjectNames == <<"Chemistry", "Math", "Physics">>
ChapterNames == <<"Algebra", "Live Session">>

study_columns ==
    {"date", "subject", "chapter", "duration_minutes", "confidence_rating",
     "notes", "timestamp"}

expense_columns == {"id", "amount", "category", "date", "description"}

\* the study table DataManager.get_user_data returns for the given rows
StudyTable(rows) ==
    [rows |-> rows, columns |-> study_columns, date_dtype |-> "date"]

\* the expense table DataManager.get_user_expenses returns for the given rows
ExpenseTable(rows) ==
    [rows |-> rows, columns |-> expense_columns, date_dtype |-> "date"]

RECURSIVE SeqSum(_)
SeqSum(q) == IF q = <<>> THEN 0 ELSE Head(q) + SeqSum(Tail(q))

Column(rows, name) == [i \in 1..Len(rows) |-> rows[i][name]]

Front(q) == SubSeq(q, 1, Len(q) - 1)

\* every (subject, chapter) key in the order groupby sorts them
AllTopics ==
    [k \in 1..(Len(SubjectNames) * Len(ChapterNames)) |->
        <<SubjectNames[((k - 1) \div Len(ChapterNames)) + 1],
          ChapterNames[((k - 1) % Len(ChapterNames)) + 1]>>]

TopicOf(r) == <<r.subject, r.chapter>>

\* the keys of groupby(['subject', 'chapter']), sorted
GroupKeys(rows) ==
    LET present(t) == \E i \in 1..Len(rows) : TopicOf(rows[i]) = t
    IN  SelectSeq(AllTopics, present)

\* the rows of one topic, in index order
TopicRows(rows, topic) ==
    LET of_topic(r) == TopicOf(r) = topic
    IN  SelectSeq(rows, of_topic)

\* sort_values('date'): rows with equal dates keep their index order (the
\* tables here are short enough for the sort to be an insertion sort)
RECURSIVE InsertByDate(_, _)
InsertByDate(sorted, r) ==
    IF sorted = <<>> THEN <<r>>
    ELSE IF sorted[Len(sorted)].date <= r.date THEN Append(sorted, r)
    ELSE Append(InsertByDate(Front(sorted), r), sorted[Len(sorted)])

RECURSIVE sort_values_date(_)
sort_values_date(rows) ==
    IF rows = <<>> THEN <<>>
    ELSE InsertByDate(sort_values_date(Front(rows)), rows[Len(rows)])

\* The quotients of small ints, computed once: quotient_table[<<p, q>>] is
\* FDiv(p, q).  (The EXCEPT makes the table an explicit function.)
quotient_table ==
    [[pq \in ((0..60) \X (1..16)) \cup ((0..500) \X {100}) |-> FDiv(pq[1], pq[2])]
        EXCEPT ![<<0, 1>>] = FZero]

\* p / q for ints p >= 0 and q > 0
IntDiv(p, q) ==
    IF <<p, q>> \in DOMAIN quotient_table THEN quotient_table[<<p, q>>]
    ELSE FDiv(p, q)

\* Series.mean() of an int column with n > 0 values
IntMean(q) == IntDiv(SeqSum(q), Len(q))

\* numpy's round(x, 2) for x >= 0: rint(x * 100.0) / 100.0
FRound2(x) == IntDiv(FRint(FMul(x, FromInt(100))), 100)

(***************************************************************************)
(* MLAnalyzer (ml_analyzer.py)                                             *)
(***************************************************************************)
weakness_threshold == FromInt(3)
min_sessions_for_analysis == 3

\* the float literals of _identify_weak_topics and _calculate_weakness_score
trend_decline_limit == FDec(5, 10)
consistency_limit == FDec(3, 10)
confidence_weight == FDec(5, 10)
trend_weight == FDec(3, 10)
consistency_weight == FDec(2, 10)

\* _calculate_improvement_trend: mean of the later half of the topic's
\* sessions minus mean of the earlier half, a signed float
_calculate_improvement_trend(user_data, subject, chapter) ==
    LET topic_data == sort_values_date(TopicRows(user_data, <<subject, chapter>>))
        n == Len(topic_data)
        mid_point == n \div 2
        ratings == Column(topic_data, "confidence_rating")
    IN  IF n < 2 THEN [neg |-> FALSE, abs |-> FZero]
        ELSE FDiff(IntMean(SubSeq(ratings, mid_point + 1, n)),
                   IntMean(SubSeq(ratings, 1, mid_point)))

SeqMin(q) == CHOOSE m \in Range(q) : \A x \in Range(q) : m <= x

SeqMax(q) == CHOOSE m \in Range(q) : \A x \in Range(q) : x <= m

\* one row of _prepare_topic_analysis: the aggregates of a topic (the mean
\* rounded to 2 decimals by .round(2); counts, sums and dates are unchanged
\* by it), days_studied, consistency_score and improvement_trend
topic_stats_row(rows, topic) ==
    LET grp == TopicRows(rows, topic)
        date_min == SeqMin(Column(grp, "date"))
        date_max == SeqMax(Column(grp, "date"))
        days_studied == (date_max - date_min) + 1
    IN  [subject |-> topic[1],
         chapter |-> topic[2],
         confidence_rating_mean |-> FRound2(IntMean(Column(grp, "confidence_rating"))),
         confidence_rating_count |-> Len(grp),
         duration_minutes_sum |-> SeqSum(Column(grp, "duration_minutes")),
         date_min |-> date_min,
         date_max |-> date_max,
         days_studied |-> days_studied,
         consistency_score |-> IntDiv(Len(grp), days_studied),
         improvement_trend |-> _calculate_improvement_trend(rows, topic[1], topic[2])]

\* _prepare_topic_analysis: one row per topic, in key order
_prepare_topic_analysis(rows) ==
    LET keys == GroupKeys(rows)
    IN  [k \in 1..Len(keys) |-> topic_stats_row(rows, keys[k])]

\* _calculate_weakness_score
_calculate_weakness_score(topic) ==
    LET confidence_factor == FScale(FSub(FromInt(5), topic.confidence_rating_mean), 2)
        trend_factor ==
            IF topic.improvement_trend.neg
            THEN FScale(topic.improvement_trend.abs, 1)
            ELSE FZero
        consistency_factor ==
            FSub(FOne, IF FLess(topic.consistency_score, FOne)
                       THEN topic.consistency_score ELSE FOne)
    IN  FAdd(FAdd(FMul(confidence_factor, confidence_weight),
                  FMul(trend_factor, trend_weight)),
             FMul(consistency_factor, consistency_weight))

\* the criteria of _identify_weak_topics without the consistency criterion
is_weak_without_consistency(topic) ==
    \/ FLess(topic.confidence_rating_mean, weakness_threshold)
    \/ (SLessNeg(topic.improvement_trend, trend_decline_limit)
        /\ topic.confidence_rating_count >= 3)

\* the criteria of _identify_weak_topics for one topic
is_weak(topic) ==
    \/ FLess(topic.confidence_rating_mean, weakness_threshold)
    \/ (SLessNeg(topic.improvement_trend, trend_decline_limit)
        /\ topic.confidence_rating_count >= 3)
    \/ (FLess(topic.consistency_score, consistency_limit)
        /\ topic.confidence_rating_count >= 2)

weak_topic_entry(topic) ==
    [subject |-> topic.subject,
     chapter |-> topic.chapter,
     avg_confidence |-> topic.confidence_rating_mean,
     total_time |-> topic.duration_minutes_sum,
     sessions |-> topic.confidence_rating_count,
     improvement_trend |-> topic.improvement_trend,
     weakness_score |-> _calculate_weakness_score(topic)]

\* list.sort(key=weakness_score, reverse=True): descending, entries with
\* equal scores keep their order
RECURSIVE InsertByScore(_, _)
InsertByScore(sorted, w) ==
    IF sorted = <<>> THEN <<w>>
    ELSE IF ~FLess(sorted[Len(sorted)].weakness_score, w.weakness_score)
    THEN Append(sorted, w)
    ELSE Append(InsertByScore(Front(sorted), w), sorted[Len(sorted)])

RECURSIVE sort_by_weakness_score(_)
sort_by_weakness_score(q) ==
    IF q = <<>> THEN <<>>
    ELSE InsertByScore(sort_by_weakness_score(Front(q)), q[Len(q)])

\* the weak topics in the order of the topic analysis, before the sort
weak_topics_unsorted(topic_analysis) ==
    LET selected(topic) ==
            is_weak(topic) /\ topic.confidence_rating_count >= min_sessions_for_analysis
        chosen == SelectSeq(topic_analysis, selected)
    IN  [k \in 1..Len(chosen) |-> weak_topic_entry(chosen[k])]

\* _identify_weak_topics returning the list without sorting it
identify_weak_topics_unsorted(topic_analysis) ==
    weak_topics_unsorted(topic_analysis)

_identify_weak_topics(topic_analysis) ==
    sort_by_weakness_score(weak_topics_unsorted(topic_analysis))

(***************************************************************************)
(* Insights.  Day 0 of the calendar is a Monday.                           *)
(***************************************************************************)
DayNames ==
    <<"Monday", "Tuesday", "Wednesday", "Thursday", "Friday", "Saturday", "Sunday">>

\* the day names in the order groupby('day_of_week') sorts them
DayNamesSorted ==
    <<"Friday", "Monday", "Saturday", "Sunday", "Thursday", "Tuesday", "Wednesday">>

day_name(d) == DayNames[(d % 7) + 1]

\* the distinct values of a set of ints in ascending order
RECURSIVE SortedAsc(_)
SortedAsc(S) ==
    IF S = {} THEN <<>>
    ELSE Append(SortedAsc(S \ {SetMax(S)}), SetMax(S))

\* Series.mean() of a float column: the values added in order, then divided
RECURSIVE FloatSum(_)
FloatSum(q) == IF q = <<>> THEN FZero ELSE FAdd(FloatSum(Front(q)), q[Len(q)])

FloatMean(q) == FDivInt(FloatSum(q), Len(q))

\* idxmax of a Series of float means indexed by keys (in key order): the first
\* key holding the largest value
RECURSIVE idxmax_from(_, _, _, _)
idxmax_from(keys, values, i, best) ==
    IF i > Len(keys) THEN keys[best]
    ELSE idxmax_from(keys, values, i + 1,
                     IF FLess(values[best], values[i]) THEN i ELSE best)

idxmax(keys, values) == idxmax_from(keys, values, 2, 1)

Tail7(q) == IF Len(q) <= 7 THEN q ELSE SubSeq(q, Len(q) - 6, Len(q))

Head7(q) == IF Len(q) <= 7 THEN q ELSE SubSeq(q, 1, 7)

\* _predict_performance_trends asking for 7 sessions instead of 7 study days
predict_performance_trends_counting_sessions(rows) ==
    LET dates == SortedAsc(Range(Column(rows, "date")))
        on(d) == LET that_day(r) == r.date = d IN SelectSeq(rows, that_day)
        confidence_rating ==
            [k \in 1..Len(dates) |-> IntMean(Column(on(dates[k]), "confidence_rating"))]
        duration_minutes ==
            [k \in 1..Len(dates) |-> SeqSum(Column(on(dates[k]), "duration_minutes"))]
    IN  IF Len(rows) < 7 THEN [status |-> "insufficient_history"]
        ELSE [confidence_trend |-> FDiff(FloatMean(Tail7(confidence_rating)),
                                         FloatMean(Head7(confidence_rating))),
              time_trend |-> FDiff(IntMean(Tail7(duration_minutes)),
                                   IntMean(Head7(duration_minutes))),
              recent_performance |-> FloatMean(Tail7(confidence_rating)),
              status |-> "success"]

\* _predict_performance_trends
_predict_performance_trends(rows) ==
    LET dates == SortedAsc(Range(Column(rows, "date")))
        on(d) == LET that_day(r) == r.date = d IN SelectSeq(rows, that_day)
        confidence_rating ==
            [k \in 1..Len(dates) |-> IntMean(Column(on(dates[k]), "confidence_rating"))]
        duration_minutes ==
            [k \in 1..Len(dates) |-> SeqSum(Column(on(dates[k]), "duration_minutes"))]
    IN  IF Len(dates) < 7 THEN [status |-> "insufficient_history"]
        ELSE LET recent_confidence == FloatMean(Tail7(confidence_rating))
                 older_confidence == FloatMean(Head7(confidence_rating))
                 recent_time == IntMean(Tail7(duration_minutes))
                 older_time == IntMean(Head7(duration_minutes))
             IN  [confidence_trend |-> FDiff(recent_confidence, older_confidence),
                  time_trend |-> FDiff(recent_time, older_time),
                  recent_performance |-> recent_confidence,
                  status |-> "success"]

\* Series.mode().iloc[0] of an int column: the smallest most frequent value
mode_first(q) ==
    LET count(v) == Cardinality({i \in 1..Len(q) : q[i] = v})
    IN  CHOOSE v \in Range(q) :
            \A w \in Range(q) : count(w) < count(v) \/ (count(w) = count(v) /\ v <= w)

\* _analyze_study_patterns leaving the caller's table without its last row
study_patterns_table_dropping_last(user_data) ==
    [user_data EXCEPT !.rows = Front(@)]

\* the table as _analyze_study_patterns leaves it: the caller's object gets
\* the columns 'hour' (when it has a 'timestamp' column) and 'day_of_week'
study_patterns_table(user_data) ==
    [user_data EXCEPT
        !.columns = @ \cup (IF "timestamp" \in @ THEN {"hour"} ELSE {})
                      \cup {"day_of_week"}]

\* _analyze_study_patterns: the patterns the recommendations read.  The
\* entry peak_hours is derived from the timestamps, which the rows of the model
\* do not carry; nothing reads it.
study_patterns(rows) ==
    LET day_keys ==
            LET has(n) == \E i \in 1..Len(rows) : day_name(rows[i].date) = n
            IN  SelectSeq(DayNamesSorted, has)
        day_mean(n) ==
            LET that_day(r) == day_name(r.date) = n
            IN  IntMean(Column(SelectSeq(rows, that_day), "confidence_rating"))
        subject_keys ==
            LET has(n) == \E i \in 1..Len(rows) : rows[i].subject = n
            IN  SelectSeq(SubjectNames, has)
        subject_time(n) ==
            LET of_subject(r) == r.subject = n
            IN  FromInt(SeqSum(Column(SelectSeq(rows, of_subject), "duration_minutes")))
        durations == Column(rows, "duration_minutes")
    IN  [most_productive_day |->
             idxmax(day_keys, [k \in 1..Len(day_keys) |-> day_mean(day_keys[k])]),
         avg_session_length |-> IntMean(durations),
         preferred_session_length |-> mode_first(durations),
         subject_diversity |-> Len(subject_keys),
         most_studied_subject |->
             idxmax(subject_keys,
                    [k \in 1..Len(subject_keys) |-> subject_time(subject_keys[k])])]

_analyze_study_patterns(user_data) ==
    [patterns |-> study_patterns(user_data.rows),
     user_data |-> study_patterns_table(user_data)]

\* _perform_clustering: the number of clusters; the labels and centers KMeans
\* computes for it are read by nothing
_perform_clustering(n_features) ==
    [n_clusters |-> LET n == Max(2, n_features \div 2) IN IF n > 4 THEN 4 ELSE n]

\* _generate_ml_insights asking for 2 groups instead of 3
generate_ml_insights_from_two_groups(user_data, topic_analysis) ==
    IF Len(topic_analysis) < 2
    THEN [insights |-> [status |-> "insufficient_data"], user_data |-> user_data]
    ELSE LET analysed == _analyze_study_patterns(user_data)
         IN  [insights |->
                  [clusters |-> _perform_clustering(Len(topic_analysis)),
                   performance_prediction |-> _predict_performance_trends(user_data.rows),
                   study_patterns |-> analysed.patterns],
              user_data |-> analysed.user_data]

\* _generate_ml_insights: the insights and the table as the call leaves it
_generate_ml_insights(user_data, topic_analysis) ==
    IF Len(topic_analysis) < 3
    THEN [insights |-> [status |-> "insufficient_data"], user_data |-> user_data]
    ELSE LET analysed == _analyze_study_patterns(user_data)
         IN  [insights |->
                  [clusters |-> _perform_clustering(Len(topic_analysis)),
                   performance_prediction |-> _predict_performance_trends(user_data.rows),
                   study_patterns |-> analysed.patterns],
              user_data |-> analysed.user_data]

(***************************************************************************)
(* Recommendations.  A message is a record: its text, with {} where a      *)
(* value is formatted into it, and the values (topics or a day name).      *)
(***************************************************************************)
Message(text, about) == [text |-> text, about |-> about]

fallback_recommendation ==
    Message("Great job! No major issues detected. Keep maintaining your study routine!", <<>>)

Take(q, n) == IF Len(q) <= n THEN q ELSE SubSeq(q, 1, n)

\* the messages of the loop over top_weak from entry i
RECURSIVE top_weak_messages(_, _)
top_weak_messages(top_weak, i) ==
    IF i > Len(top_weak) THEN <<>>
    ELSE LET topic == top_weak[i]
             about == <<<<topic.subject, topic.chapter>>>>
             here ==
                 IF topic.improvement_trend.neg
                 THEN <<Message(" {}: Try different study methods, confidence is declining", about)>>
                 ELSE IF topic.sessions < 5
                 THEN <<Message(" {}: Needs more practice sessions", about)>>
                 ELSE <<>>
         IN  here \o top_weak_messages(top_weak, i + 1)

weakness_messages(weak_topics) ==
    IF weak_topics = <<>> THEN <<>>
    ELSE LET top_weak == Take(weak_topics, 3)
         IN  <<Message("Focus on these weak areas: {}",
                       [k \in 1..Len(top_weak) |->
                           <<top_weak[k].subject, top_weak[k].chapter>>])>>
             \o top_weak_messages(top_weak, 1)

pattern_messages(insights) ==
    IF "study_patterns" \in DOMAIN insights
       /\ ("status" \notin DOMAIN insights.study_patterns
           \/ insights.study_patterns.status /= "pattern_analysis_failed")
    THEN LET patterns == insights.study_patterns
         IN  (IF "most_productive_day" \in DOMAIN patterns
              THEN <<Message("You perform best on {}s - consider scheduling important topics then",
                             <<<<patterns.most_productive_day>>>>)>>
              ELSE <<>>)
             \o
             (IF "avg_session_length" \in DOMAIN patterns
              THEN IF FLess(patterns.avg_session_length, FromInt(20))
                   THEN <<Message("Consider longer study sessions (20-45 minutes) for better retention", <<>>)>>
                   ELSE IF FLess(FromInt(90), patterns.avg_session_length)
                   THEN <<Message("Break down long sessions into smaller chunks with breaks", <<>>)>>
                   ELSE <<>>
              ELSE <<>>)
    ELSE <<>>

trend_messages(insights) ==
    IF "performance_prediction" \in DOMAIN insights
       /\ insights.performance_prediction.status = "success"
    THEN LET pred == insights.performance_prediction
         IN  (IF SLessNeg(pred.confidence_trend, FDec(2, 10))
              THEN <<Message("Your confidence has been declining recently - consider reviewing fundamentals", <<>>)>>
              ELSE IF SGreater(pred.confidence_trend, FDec(2, 10))
              THEN <<Message("Great progress! Your confidence is improving - keep up the momentum", <<>>)>>
              ELSE <<>>)
             \o
             (IF SLessNeg(pred.time_trend, FromInt(10))
              THEN <<Message("You've been studying less lately - try to maintain consistency", <<>>)>>
              ELSE <<>>)
    ELSE <<>>

\* the general recommendation: fewer than 3 sessions in the 7 days up to the
\* latest session of a table of at least 10 rows
consistency_messages(rows) ==
    IF Len(rows) >= 10
    THEN LET latest == SeqMax(Column(rows, "date"))
             recent_consistency ==
                 Cardinality({i \in 1..Len(rows) : rows[i].date >= latest - 7})
         IN  IF recent_consistency < 3
             THEN <<Message("Try to study more consistently - aim for at least 3 sessions per week", <<>>)>>
             ELSE <<>>
    ELSE <<>>

diversity_messages(rows) ==
    LET subject_count == Cardinality(Range(Column(rows, "subject")))
    IN  IF subject_count = 1
        THEN <<Message("Consider diversifying your subjects to maintain engagement", <<>>)>>
        ELSE IF subject_count > 5
        THEN <<Message("You're studying many subjects - ensure you're giving enough attention to each", <<>>)>>
        ELSE <<>>

\* the messages of the rules of _generate_recommendations, before the fallback
\* and the limit
fired_recommendations(weak_topics, insights, rows) ==
    weakness_messages(weak_topics) \o pattern_messages(insights)
    \o trend_messages(insights) \o consistency_messages(rows)
    \o diversity_messages(rows)

\* the table as _generate_recommendations leaves it: with 10 rows or more the
\* caller's 'date' column is replaced by pd.to_datetime of it
recommendations_table(user_data) ==
    IF Len(user_data.rows) >= 10
    THEN [user_data EXCEPT !.date_dtype = "datetime64"]
    ELSE user_data

\* _generate_recommendations without the limit of 6
generate_recommendations_unlimited(weak_topics, insights, user_data) ==
    LET fired == fired_recommendations(weak_topics, insights, user_data.rows)
    IN  [recommendations |-> IF fired = <<>> THEN <<fallback_recommendation>> ELSE fired,
         user_data |-> recommendations_table(user_data)]

_generate_recommendations(weak_topics, insights, user_data) ==
    LET fired == fired_recommendations(weak_topics, insights, user_data.rows)
    IN  [recommendations |->
             Take(IF fired = <<>> THEN <<fallback_recommendation>> ELSE fired, 6),
         user_data |-> recommendations_table(user_data)]

need_more_sessions ==
    Message("Need more study sessions for accurate analysis.", <<>>)

\* the value analyze_weaknesses returns, with the caller's table as the
\* composer leaves it
analysis_result(weak_topics, composed) ==
    [weak_topics |-> weak_topics,
     recommendations |-> composed.recommendations,
     user_data |-> composed.user_data]

\* the last step of the analysis: the recommendations from the weak topics
\* and the insights
recommend_from(weak_topics, analysed) ==
    analysis_result(weak_topics,
                    _generate_recommendations(weak_topics, analysed.insights,
                                              analysed.user_data))

\* the steps of the analysis that follow _prepare_topic_analysis
analyze_topics(user_data, topic_analysis) ==
    recommend_from(_identify_weak_topics(topic_analysis),
                   _generate_ml_insights(user_data, topic_analysis))

\* analyze_weaknesses without the guard on the number of sessions
analyze_weaknesses_unguarded(user_data) ==
    analyze_topics(user_data, _prepare_topic_analysis(user_data.rows))

\* analyze_weaknesses: the weak topics, the recommendations, and the caller's
\* table as the call leaves it.  No step of the analysis raises on a table
\* of well-formed rows, so the except branch is not taken.
analyze_weaknesses(user_data) ==
    IF Len(user_data.rows) < 5
    THEN [weak_topics |-> <<>>,
          recommendations |-> <<need_more_sessions>>,
          user_data |-> user_data]
    ELSE analyze_topics(user_data, _prepare_topic_analysis(user_data.rows))

(***************************************************************************)
(* State.                                                                  *)
(*   user_data  the current user's study log (the rows of the study CSV,   *)
(*              in insertion order), with the columns the analytics read   *)
(*   today      datetime.now().date()                                      *)
(*   total_xp   the total the app last computed from user_data             *)
(*   xp_gained  the XP reported by the last logged session                 *)
(*   args, ret  the arguments and the result of a direct call of one of    *)
(*              the analytics functions                                    *)
(***************************************************************************)
\* session_state is st.session_state of the browser session, clock the time
\* datetime.now() returns (in minutes), auth_data the usernames of the
\* accounts, and timers the history of the live timers started in the browser
\* session: who started each one, how it ended and into whose log it was
\* written.
VARIABLES user_data, today, total_xp, xp_gained, args, ret,
          session_state, clock, timers, auth_data

vars == <<user_data, today, total_xp, xp_gained, args, ret,
          session_state, clock, timers, auth_data>>

NoCall == [op |-> "none"]

None == "None"

\* timer_end_time = None, the times of the clock being naturals
NoEndTime == 0 - 1

\* st.session_state as the script initialises it on the first run
initial_session_state ==
    [current_user |-> None,
     timer_running |-> FALSE,
     session_just_completed |-> FALSE,
     timer_end_time |-> NoEndTime,
     timer_duration |-> 0,
     timer_subject |-> <<>>]

\* the browser session before anything was done in it
NoLiveSession ==
    /\ session_state = initial_session_state
    /\ clock = 0
    /\ timers = <<>>
    /\ auth_data = {}

(***************************************************************************)
(* Specification Spec: sessions are logged one after the other.            *)
(***************************************************************************)
Init ==
    /\ NoLiveSession
    /\ user_data = <<>>
    /\ today = MaxDay
    /\ total_xp = calculate_total_xp(<<>>)
    /\ xp_gained = 0
    /\ args = NoCall
    /\ ret = NoCall

\* DataManager.log_study_session: the table with the new row appended
log_study_session(data, date, duration, confidence) ==
    Append(data, [date |-> date, duration_minutes |-> duration,
                  confidence_rating |-> confidence])

\* _log_and_reward_session: the XP computed for the session, the append, and
\* the total recomputed from the updated table.  With another event pending
\* the run is ended at the st.success that follows the append, and no total
\* is computed; args records which of the two the last run was.
LogAndRewardSession(date, duration, confidence, event_pending) ==
    /\ Len(user_data) < MaxLog
    /\ LET current_streak == calculate_streak(DateColumn(user_data), today)
           updated_data == log_study_session(user_data, date, duration, confidence)
       IN  /\ xp_gained' = calculate_session_xp(duration, confidence, current_streak)
           /\ user_data' = updated_data
           /\ total_xp' = IF event_pending THEN total_xp
                          ELSE calculate_total_xp(updated_data)
    /\ args' = [op |-> "_log_and_reward_session", event_pending |-> event_pending]
    /\ UNCHANGED <<session_state, clock, timers, auth_data, today, ret>>

\* the last run of _log_and_reward_session reached its end
SessionRewarded ==
    /\ args.op = "_log_and_reward_session"
    /\ ~args.event_pending

Next ==
    \E date \in Days, duration \in LoggedDurations, confidence \in LoggedRatings,
       event_pending \in BOOLEAN :
        LogAndRewardSession(date, duration, confidence, event_pending)

Spec == Init /\ [][Next]_vars

(***************************************************************************)
(* Specification SpecStreak: calculate_streak called on a date column.     *)
(***************************************************************************)
RECURSIVE SeqsUpTo(_, _)
SeqsUpTo(S, n) ==
    IF n = 0 THEN {<<>>}
    ELSE LET shorter == SeqsUpTo(S, n - 1)
         IN  shorter \cup {Append(q, x) : q \in shorter, x \in S}

InitStreak ==
    /\ NoLiveSession
    /\ user_data = <<>>
    /\ today \in CalendarDays
    /\ total_xp = 0
    /\ xp_gained = 0
    /\ args \in {[op |-> "calculate_streak", dates |-> q] :
                    q \in SeqsUpTo(CalendarDays, MaxDates)}
    /\ ret = NoCall

CallCalculateStreak ==
    /\ args.op = "calculate_streak"
    /\ ret = NoCall
    /\ ret' = [op |-> "calculate_streak",
               value |-> calculate_streak(args.dates, today)]
    /\ UNCHANGED <<session_state, clock, timers, auth_data, user_data, today, total_xp, xp_gained, args>>

NextStreak == CallCalculateStreak

SpecStreak == InitStreak /\ [][NextStreak]_vars

(***************************************************************************)
(* Specification SpecSessionXP: calculate_session_xp called directly.      *)
(***************************************************************************)
InitSessionXP ==
    /\ NoLiveSession
    /\ user_data = <<>>
    /\ today = 0
    /\ total_xp = 0
    /\ xp_gained = 0
    /\ args \in {[op |-> "calculate_session_xp", duration |-> d,
                  confidence |-> c, streak |-> k] :
                    d \in 0..MaxDuration, c \in 0..6, k \in 0..MaxStreak}
    /\ ret = NoCall

CallCalculateSessionXP ==
    /\ args.op = "calculate_session_xp"
    /\ ret = NoCall
    /\ ret' = [op |-> "calculate_session_xp",
               value |-> calculate_session_xp(args.duration, args.confidence,
                                              args.streak)]
    /\ UNCHANGED <<session_state, clock, timers, auth_data, user_data, today, total_xp, xp_gained, args>>

NextSessionXP == CallCalculateSessionXP

SpecSessionXP == InitSessionXP /\ [][NextSessionXP]_vars

(***************************************************************************)
(* Specification SpecLevel: get_level and get_level_progress called on a   *)
(* total; args.gap picks a second, larger total to compare with.           *)
(***************************************************************************)
InitLevel ==
    /\ NoLiveSession
    /\ user_data = <<>>
    /\ today = 0
    /\ total_xp = 0
    /\ xp_gained = 0
    /\ args \in {[op |-> "level", xp |-> x, gap |-> g] :
                    x \in (0 - XpBelow)..MaxXp, g \in 1..MaxGap}
    /\ ret = NoCall

CallGetLevel ==
    /\ args.op = "level"
    /\ ret = NoCall
    /\ ret' = [op |-> "get_level", value |-> get_level(args.xp)]
    /\ UNCHANGED <<session_state, clock, timers, auth_data, user_data, today, total_xp, xp_gained, args>>

CallGetLevelProgress ==
    /\ args.op = "level"
    /\ ret = NoCall
    /\ ret' = [op |-> "get_level_progress", value |-> get_level_progress(args.xp)]
    /\ UNCHANGED <<session_state, clock, timers, auth_data, user_data, today, total_xp, xp_gained, args>>

NextLevel == CallGetLevel \/ CallGetLevelProgress

SpecLevel == InitLevel /\ [][NextLevel]_vars

(***************************************************************************)
(* Reference notions used to state the properties.                         *)
(***************************************************************************)
\* the length of the run of consecutive days present in S that ends at t
\* (0 when t is not in S)
RunEndingAt(S, t) ==
    IF t \notin S THEN 0
    ELSE CHOOSE k \in 1..Cardinality(S) :
             /\ \A i \in 0..(k - 1) : (t - i) \in S
             /\ (t - k) \notin S

\* ten times the multiplier of a rating
MultiplierTenths(c) ==
    CASE c = 1 -> 5 [] c = 2 -> 7 [] c = 3 -> 10 [] c = 4 -> 13 [] c = 5 -> 15
      [] OTHER -> 10

Min(a, b) == IF a <= b THEN a ELSE b

\* max(5, floor(duration x 2 x m x (1 + min(0.5, 0.1 x streak)))) in exact
\* arithmetic, for duration >= 0
ExactSessionXP(d, c, k) ==
    Max(5, (d * 2 * MultiplierTenths(c) * (10 + Min(5, k))) \div 100)

\* the number of thresholds that are <= xp
ThresholdsUpTo(xp) ==
    Cardinality({n \in 1..Len(level_thresholds) : level_thresholds[n] <= xp})

Clamp(v, lo, hi) == Max(lo, Min(hi, v))

LastThreshold == level_thresholds[Len(level_thresholds)]

\* the sum over the rows 1..n of a table of the session XP of the row, its
\* streak being the run of days of S that ends at the row's date
RECURSIVE SessionXpSum(_, _, _)
SessionXpSum(data, S, n) ==
    IF n = 0 THEN 0
    ELSE calculate_session_xp(data[n].duration_minutes, data[n].confidence_rating,
                              RunEndingAt(S, data[n].date))
         + SessionXpSum(data, S, n - 1)

(***************************************************************************)
(* Properties of the session log (specification Spec).                     *)
(***************************************************************************)
\* C1: under any sequence of appended sessions the total XP of the log never
\* decreases from one step to the next, and neither does the level of that
\* total: the total computed after an append is at least the total of the
\* log before the append and at least the total computed last.
C1_XpAndLevelNeverDecrease ==
    [][/\ total_xp' >= total_xp
       /\ get_level(total_xp') >= get_level(total_xp)
       /\ SessionRewarded' =>
              /\ total_xp' >= calculate_total_xp(user_data)
              /\ get_level(total_xp') >= get_level(calculate_total_xp(user_data))]_vars

\* a short session dated the day before the one already logged has been
\* appended, and the total has reached the second level
C1_Witness ==
    /\ SessionRewarded
    /\ DateColumn(user_data) = <<1, 0>>
    /\ user_data[2].duration_minutes = 1
    /\ get_level(total_xp) = 2

\* C10: the total XP is 0 for an empty log and otherwise the sum over all
\* sessions of calculate_session_xp(duration, confidence, streak as of the
\* session's date), the streak being the run of consecutive logged days that
\* ends at that date; nothing else (no achievement reward) is added.  The
\* total is the one of the empty log at the start and the one computed by
\* every run that reaches its end.
C10_TotalIsSumOfSessionXp ==
    /\ user_data = <<>> => total_xp = 0
    /\ calculate_total_xp(<<>>) = 0
    /\ SessionRewarded =>
           total_xp = SessionXpSum(user_data, Range(DateColumn(user_data)),
                                   Len(user_data))

\* three sessions on two consecutive days, logged out of order
C10_Witness ==
    /\ SessionRewarded
    /\ DateColumn(user_data) = <<1, 0, 1>>
    /\ user_data[1].duration_minutes = 45
    /\ user_data[2].duration_minutes = 1
    /\ total_xp > 50

(***************************************************************************)
(* Properties of calculate_streak (specification SpecStreak).              *)
(***************************************************************************)
\* C2: when today or yesterday is among the dates, calculate_streak is the
\* number of consecutive days present counting backward from today if today
\* is present and otherwise from yesterday.
C2_StreakIsRunFromTodayOrYesterday ==
    (ret.op = "calculate_streak") =>
        LET S == Range(args.dates)
        IN  (today \in S \/ (today - 1) \in S) =>
                ret.value = RunEndingAt(S, IF today \in S THEN today ELSE today - 1)

\* C3: calculate_streak is 0 whenever neither today nor yesterday is among
\* the dates (the empty column included), and it is never negative.
C3_NoRecentDayNoStreak ==
    (ret.op = "calculate_streak") =>
        LET S == Range(args.dates)
        IN  /\ ret.value >= 0
            /\ (today \notin S /\ (today - 1) \notin S) => ret.value = 0

\* dates are present, none of them today or yesterday, and the call returned
C3_Witness ==
    /\ ret.op = "calculate_streak"
    /\ Range(args.dates) = {0}
    /\ today = 2
    /\ ret.value = 0

(***************************************************************************)
(* Properties of calculate_session_xp (specification SpecSessionXP).       *)
(***************************************************************************)
\* C4: calculate_session_xp returns
\* max(5, floor(duration x 2 x m x (1 + min(0.5, 0.1 x streak)))), so it is at
\* least 5, non-decreasing in the streak and the same for every streak >= 5.
C4_SessionXpIsExactFloor ==
    (ret.op = "calculate_session_xp") =>
        /\ ret.value = ExactSessionXP(args.duration, args.confidence, args.streak)
        /\ ret.value >= 5
        /\ ret.value <= calculate_session_xp(args.duration, args.confidence,
                                             args.streak + 1)
        /\ args.streak >= 5 =>
               ret.value = calculate_session_xp(args.duration, args.confidence, 5)

\* C5 as claimed: calculate_session_xp(30, 3, 0) is 180 and
\* calculate_session_xp(1, 1, 0) is 5.
C5_SessionXpExamplesClaimed ==
    (ret.op = "calculate_session_xp" /\ args.streak = 0) =>
        /\ (args.duration = 30 /\ args.confidence = 3) => ret.value = 180
        /\ (args.duration = 1 /\ args.confidence = 1) => ret.value = 5

\* C5 as amended: calculate_session_xp(30, 3, 0) is 60 (30 x 2 x 1.0 x 1.0) and
\* calculate_session_xp(1, 1, 0) is 5.
C5_SessionXpExamples ==
    (ret.op = "calculate_session_xp" /\ args.streak = 0) =>
        /\ (args.duration = 30 /\ args.confidence = 3) => ret.value = 60
        /\ (args.duration = 1 /\ args.confidence = 1) => ret.value = 5

\* the 30 minute session at rating 3 without a streak has been scored
C5_Witness ==
    /\ ret.op = "calculate_session_xp"
    /\ args.duration = 30 /\ args.confidence = 3 /\ args.streak = 0
    /\ ret.value = 60

(***************************************************************************)
(* Properties of get_level and get_level_progress (specification           *)
(* SpecLevel).                                                             *)
(***************************************************************************)
\* C6: an xp between the n-th threshold (inclusive) and the next (exclusive)
\* has level n, an xp at or above the last threshold has the maximum level
\* 21, and the level is within 1..21 for every xp, negative ones included.
C6_LevelBands ==
    (ret.op = "get_level") =>
        /\ ret.value \in 1..21
        /\ \A n \in 1..(Len(level_thresholds) - 1) :
               (level_thresholds[n] <= args.xp /\ args.xp < level_thresholds[n + 1])
                   => ret.value = n
        /\ args.xp >= 15300 => ret.value = 21
        /\ args.xp \in {0, 99} => ret.value = 1
        /\ args.xp = 100 => ret.value = 2

\* the level of a total beyond the last threshold has been asked for
C6_Witness ==
    /\ ret.op = "get_level"
    /\ args.xp > 15300
    /\ ret.value = 21

\* C7 as claimed: for total_xp >= 0 the level is 1 + the number of thresholds
\* <= total_xp, clamped to 1..21.
C7_LevelIsOnePlusCount ==
    (ret.op = "get_level" /\ args.xp >= 0) =>
        ret.value = Clamp(1 + ThresholdsUpTo(args.xp), 1, Len(level_thresholds))

\* C7 as amended: for total_xp >= 0 the level is the number of thresholds
\* <= total_xp, clamped to 1..21.
C7_LevelIsCount ==
    (ret.op = "get_level" /\ args.xp >= 0) =>
        ret.value = Clamp(ThresholdsUpTo(args.xp), 1, Len(level_thresholds))

\* the level of a total inside the third band has been asked for
C7_Witness ==
    /\ ret.op = "get_level"
    /\ args.xp = 300
    /\ ret.value = 3

\* the band of a level below the maximum: its first xp and the next threshold
BandStart(level) == level_thresholds[level]
BandEnd(level) == level_thresholds[level + 1]

\* C8 as claimed: below 15300 the progress is exactly
\* (xp - band start) / (band end - band start) x 100, in [0, 100), with
\* current_level = get_level(xp) and xp_to_next = band end - xp > 0; from
\* 15300 on the progress is 100 and xp_to_next is 0.
C8_ProgressIsExactPercentage ==
    (ret.op = "get_level_progress" /\ args.xp >= 0) =>
        LET r == ret.value
            lv == get_level(args.xp)
        IN  IF args.xp >= LastThreshold
            THEN r.progress = 1000 /\ r.xp_to_next = 0
            ELSE /\ r.current_level = lv
                 /\ r.xp_to_next = BandEnd(lv) - args.xp
                 /\ r.xp_to_next > 0
                 /\ r.progress * (BandEnd(lv) - BandStart(lv))
                        = 1000 * (args.xp - BandStart(lv))
                 /\ 0 <= r.progress /\ r.progress < 1000

\* C8 as amended: below 15300 the progress is that percentage rounded to one
\* decimal place (at most 0.05 away from it), in [0, 100); the rest as claimed.
C8_ProgressIsRoundedPercentage ==
    (ret.op = "get_level_progress" /\ args.xp >= 0) =>
        LET r == ret.value
            lv == get_level(args.xp)
        IN  IF args.xp >= LastThreshold
            THEN r.progress = 1000 /\ r.xp_to_next = 0
            ELSE /\ r.current_level = lv
                 /\ r.xp_to_next = BandEnd(lv) - args.xp
                 /\ r.xp_to_next > 0
                 /\ 2 * Abs(r.progress * (BandEnd(lv) - BandStart(lv))
                            - 1000 * (args.xp - BandStart(lv)))
                        <= BandEnd(lv) - BandStart(lv)
                 /\ 0 <= r.progress /\ r.progress < 1000

\* the progress of the last xp before the maximum level has been asked for:
\* 1699/1700 of the band, reported as 99.9
C8_Witness ==
    /\ ret.op = "get_level_progress"
    /\ args.xp = 15299
    /\ ret.value.progress = 999
    /\ ret.value.xp_to_next = 1

SameBand(xp1, xp2) ==
    /\ xp1 >= 0
    /\ xp2 < LastThreshold
    /\ get_level(xp1) = get_level(xp2)

\* C9 as claimed: within one band below the maximum level a larger xp has a
\* strictly larger progress, and the first xp of a band has progress 0.
C9_ProgressStrictlyIncreases ==
    (ret.op = "get_level_progress") =>
        /\ SameBand(args.xp, args.xp + args.gap) =>
               ret.value.progress < get_level_progress(args.xp + args.gap).progress
        /\ (\E n \in 1..(Len(level_thresholds) - 1) : args.xp = BandStart(n)) =>
               ret.value.progress = 0

\* C9 as amended: within one band below the maximum level a larger xp never
\* has a smaller progress, it has a strictly larger one in the bands at most
\* 1000 xp wide (levels 1 to 14), and the first xp of a band has progress 0.
C9_ProgressNeverDecreases ==
    (ret.op = "get_level_progress") =>
        /\ SameBand(args.xp, args.xp + args.gap) =>
               LET lv == get_level(args.xp)
                   p1 == ret.value.progress
                   p2 == get_level_progress(args.xp + args.gap).progress
               IN  /\ p1 <= p2
                   /\ BandEnd(lv) - BandStart(lv) <= 1000 => p1 < p2
        /\ (\E n \in 1..(Len(level_thresholds) - 1) : args.xp = BandStart(n)) =>
               ret.value.progress = 0

\* two neighbouring totals of the widest band share their rounded progress
C9_Witness ==
    /\ ret.op = "get_level_progress"
    /\ args.xp \in 13601..15297
    /\ args.gap = 1
    /\ ret.value.progress = get_level_progress(args.xp + 1).progress

(***************************************************************************)
(* Specification SpecTopicScore: the weakness score of one topic group.    *)
(* The group has up to MaxTopicSessions sessions with any ratings; the     *)
(* sessions are on the same day or MaxTopicGap days apart, and the rows    *)
(* are in date order or in the reverse order.                              *)
(***************************************************************************)
TopicGaps == {0, MaxTopicGap}

study_row(topic, date, duration, confidence) ==
    [subject |-> topic[1], chapter |-> topic[2], date |-> date,
     duration_minutes |-> duration, confidence_rating |-> confidence]

\* the day of session i of a group whose first session is on day first
RECURSIVE session_day(_, _, _)
session_day(first, gaps, i) ==
    IF i = 1 THEN first ELSE session_day(first, gaps, i - 1) + gaps[i - 1]

\* the rows of a topic with the given ratings, the gaps between sessions
group_rows(topic, first, ratings, gaps) ==
    [i \in 1..Len(ratings) |->
        study_row(topic, session_day(first, gaps, i), 30, ratings[i])]

Reverse(q) == [i \in 1..Len(q) |-> q[Len(q) + 1 - i]]

TupleSet(S, n) == [1..n -> S]

TopicGroups ==
    UNION {{group_rows(AllTopics[3], 0, ratings, gaps) :
                ratings \in TupleSet(Ratings, n), gaps \in TupleSet(TopicGaps, n - 1)} :
           n \in 1..MaxTopicSessions}

InitTopicScore ==
    /\ NoLiveSession
    /\ today = 0
    /\ total_xp = 0
    /\ xp_gained = 0
    /\ ret = NoCall
    /\ \E grp \in TopicGroups, newest_first \in BOOLEAN :
           /\ user_data = StudyTable(IF newest_first THEN Reverse(grp) ELSE grp)
           /\ args = [op |-> "_calculate_weakness_score", user_data |-> user_data]

\* the score _identify_weak_topics computes for the first topic of the analysis
CallCalculateWeaknessScore ==
    /\ args.op = "_calculate_weakness_score"
    /\ ret = NoCall
    /\ LET topic == _prepare_topic_analysis(user_data.rows)[1]
       IN  ret' = [op |-> "_calculate_weakness_score",
                   topic |-> topic,
                   value |-> _calculate_weakness_score(topic)]
    /\ UNCHANGED <<session_state, clock, timers, auth_data, user_data, today, total_xp, xp_gained, args>>

NextTopicScore == CallCalculateWeaknessScore

SpecTopicScore == InitTopicScore /\ [][NextTopicScore]_vars

(***************************************************************************)
(* Specification SpecWeakness: analyze_weaknesses called, once and again,  *)
(* on the caller's study table.  The table holds up to MaxTopicSessions    *)
(* sessions of each of two topics of one subject and at most one session   *)
(* of a third topic; tables of 10 sessions and more are the fullest of     *)
(* these with the second topic rated 1 throughout, followed by four        *)
(* sessions of a fourth topic.                                             *)
(***************************************************************************)
WeaknessRatings == {1, 4}

WeaknessGroups(topic, first, most) ==
    UNION {{group_rows(topic, first, ratings, [i \in 1..(n - 1) |-> gap]) :
                ratings \in TupleSet(WeaknessRatings, n), gap \in TopicGaps} :
           n \in 0..most}

\* the groups of exactly n sessions among WeaknessGroups
FullGroups(topic, first, n) ==
    {g \in WeaknessGroups(topic, first, n) : Len(g) = n}

\* MaxTopicSessions sessions of the second topic, all rated 1, from day 1
low_sessions ==
    group_rows(AllTopics[3], 1, [i \in 1..MaxTopicSessions |-> 1],
               [i \in 1..(MaxTopicSessions - 1) |-> MaxTopicGap])

\* four sessions of a fourth topic on the days 6 to 9
later_sessions == group_rows(AllTopics[1], 6, <<4, 4, 4, 4>>, <<1, 1, 1>>)

WeaknessTables ==
    {StudyTable(g1 \o g2 \o g3) :
        g1 \in WeaknessGroups(AllTopics[4], 0, MaxTopicSessions),
        g2 \in WeaknessGroups(AllTopics[3], 1, MaxTopicSessions),
        g3 \in WeaknessGroups(AllTopics[5], 2, 1)}
    \cup
    {StudyTable(g1 \o low_sessions \o g3 \o later_sessions) :
        g1 \in FullGroups(AllTopics[4], 0, MaxTopicSessions),
        g3 \in FullGroups(AllTopics[5], 2, 1)}

InitWeakness ==
    /\ NoLiveSession
    /\ today = 0
    /\ total_xp = 0
    /\ xp_gained = 0
    /\ ret = NoCall
    /\ user_data \in WeaknessTables
    /\ args = [op |-> "analyze_weaknesses", user_data |-> user_data]

\* a call of analyze_weaknesses on the caller's table in its current state;
\* ret keeps the result of the first call next to the result of the latest
CallAnalyzeWeaknesses ==
    /\ args.op = "analyze_weaknesses"
    /\ (IF ret = NoCall THEN TRUE ELSE ret.calls < 2)
    /\ \E out \in {analyze_weaknesses(user_data)} :
           /\ ret' = [op |-> "analyze_weaknesses",
                      calls |-> IF ret = NoCall THEN 1 ELSE ret.calls + 1,
                      value |-> [weak_topics |-> out.weak_topics,
                                 recommendations |-> out.recommendations],
                      first |-> IF ret = NoCall
                                THEN [weak_topics |-> out.weak_topics,
                                      recommendations |-> out.recommendations]
                                ELSE ret.first]
           /\ user_data' = out.user_data
    /\ UNCHANGED <<session_state, clock, timers, auth_data, today, total_xp, xp_gained, args>>

NextWeakness == CallAnalyzeWeaknesses

SpecWeakness == InitWeakness /\ [][NextWeakness]_vars

\* C11: analyze_weaknesses on a table of fewer than 5 sessions (the empty table
\* included) returns no weak topic and a non-empty list of messages.
C11_FewSessionsGiveGuidanceOnly ==
    (ret.op = "analyze_weaknesses" /\ Len(args.user_data.rows) < 5)
        => (ret.value.weak_topics = <<>> /\ ret.value.recommendations /= <<>>)

\* a call on 4 sessions, 3 of them of one topic with the lowest rating
C11_Witness ==
    /\ ret.op = "analyze_weaknesses"
    /\ Len(args.user_data.rows) = 4
    /\ \A i \in 1..3 : /\ args.user_data.rows[i].confidence_rating = 1
                       /\ TopicOf(args.user_data.rows[i]) = AllTopics[4]
    /\ ret.value.weak_topics = <<>>
    /\ ret.value.recommendations = <<need_more_sessions>>

\* C12: the weakness score of a topic group of at least 3 sessions with ratings
\* in 1..5 lies in [0, 1].  (No float of the model is negative, so the formula
\* states the upper end.)
C12_WeaknessScoreInUnitInterval ==
    (ret.op = "_calculate_weakness_score" /\ ret.topic.confidence_rating_count >= 3)
        => ~FLess(FOne, ret.value)

\* C13: the weak topics analyze_weaknesses returns are in descending order of
\* weakness_score: no entry has a smaller score than the entry after it.
C13_WeakTopicsSortedByScore ==
    ret.op = "analyze_weaknesses"
        => \A i \in 1..(Len(ret.value.weak_topics) - 1) :
               ~FLess(ret.value.weak_topics[i].weakness_score,
                      ret.value.weak_topics[i + 1].weakness_score)

\* two weak topics returned, the one later in key order first, with the
\* strictly larger score
C13_Witness ==
    /\ ret.op = "analyze_weaknesses"
    /\ Len(ret.value.weak_topics) = 2
    /\ ret.value.weak_topics[1].chapter = "Live Session"
    /\ ret.value.weak_topics[2].chapter = "Algebra"
    /\ FLess(ret.value.weak_topics[2].weakness_score,
             ret.value.weak_topics[1].weakness_score)

(***************************************************************************)
(* MLAnalyzer.forecast_spending.  Amounts are whole rupees.  The line and   *)
(* the amounts of the series are binary64 values (signed floats).          *)
(* LinearRegression centres X and y on their means, takes the slope from   *)
(* LAPACK's least-squares solver and computes the intercept and the        *)
(* predictions from it in float arithmetic.  The last places of the slope  *)
(* the solver returns are not fixed by the source: the slope is one of the *)
(* floats at most MaxLstsqUlps places from the float nearest to the exact  *)
(* least-squares slope, the same one for the same X and y (lstsq_ulps).    *)
(***************************************************************************)
default_forecast_days == 30

need_five_expenses ==
    [text |-> "Need at least 5 expenses for an accurate forecast."]

need_two_days ==
    [text |-> "Need expenses on at least 2 different days for a forecast."]

\* groupby('date')['amount'].sum() sorted by date, with the 'days' column
daily_spending(rows) ==
    LET dates == SortedAsc(Range(Column(rows, "date")))
        amount_on(d) ==
            LET that_day(r) == r.date = d
            IN  SeqSum(Column(SelectSeq(rows, that_day), "amount"))
    IN  [k \in 1..Len(dates) |->
            [date |-> dates[k], amount |-> amount_on(dates[k]),
             days |-> dates[k] - dates[1]]]

\* the daily amounts taken as they are, without the running total
daily_amounts_not_accumulated(q) == q

\* Series.cumsum()
cumsum(q) == [k \in 1..Len(q) |-> SeqSum(SubSeq(q, 1, k))]

SeqDot(p, q) == SeqSum([k \in 1..Len(p) |-> p[k] * q[k]])

\* the slope the solver returns for the exact slope num / den, den > 0
lstsq_slope(num, den, lstsq_ulps) ==
    [neg |-> num < 0, abs |-> FNudge(FDiv(Abs(num), den), lstsq_ulps)]

\* a line through the origin with the least-squares slope of such a line
LinearRegression_fit_no_intercept(X, y, lstsq_ulps) ==
    [coef_ |-> lstsq_slope(SeqDot(X, y), SeqDot(X, X), lstsq_ulps),
     intercept_ |-> SFromInt(0)]

\* the intercept of the line with the given slope through the means
set_intercept(X_offset, y_offset, coef_) ==
    [coef_ |-> coef_, intercept_ |-> SSub(y_offset, SMul(X_offset, coef_))]

\* the mean of a column of ints, as a signed float
average(q) ==
    [neg |-> SeqSum(q) < 0, abs |-> FDiv(Abs(SeqSum(q)), Len(q))]

\* LinearRegression().fit(X, y) for one feature with at least 2 distinct
\* values (X >= 0): coef_ and intercept_
LinearRegression_fit(X, y, lstsq_ulps) ==
    LET n == Len(X)
        sx == SeqSum(X)
        sy == SeqSum(y)
        sxx == SeqDot(X, X)
        sxy == SeqDot(X, y)
    IN  set_intercept(FDiv(sx, n), average(y),
                      lstsq_slope(n * sxy - sx * sy, n * sxx - sx * sx, lstsq_ulps))

\* model.predict at one day offset x >= 0: x * coef_ + intercept_
predict(model, x) == SAdd(SMul(FromInt(x), model.coef_), model.intercept_)

\* f"{x:.2f}" of a signed float, as a signed number of hundredths
format_2f(x) == (IF x.neg THEN 0 - 1 ELSE 1) * FHundredths(x.abs)

\* np.arange(last_day, last_day + forecast_days): the range starting a day early
future_days_from_last(last_day, forecast_days) ==
    [j \in 1..forecast_days |-> last_day + j - 1]

\* np.arange(last_day + 1, last_day + 1 + forecast_days)
future_days_after(last_day, forecast_days) ==
    [j \in 1..forecast_days |-> last_day + j]

\* forecast_spending from line 48 on, for a table of at least 5 rows and
\* forecast_days >= 1.  The caller's 'date' column is replaced by
\* pd.to_datetime of it before anything else.
forecast_from_expenses(expense_data, forecast_days, lstsq_ulps) ==
    LET converted == [expense_data EXCEPT !.date_dtype = "datetime64"]
        daily == daily_spending(expense_data.rows)
    IN  IF Len(daily) < 2
        THEN [forecast_df_is_None |-> TRUE, forecast_df |-> <<>>,
              message |-> need_two_days, expense_data |-> converted]
        ELSE LET X == Column(daily, "days")
                 y == cumsum(Column(daily, "amount"))
                 model == LinearRegression_fit(X, y, lstsq_ulps)
                 future_days == future_days_after(SeqMax(X), forecast_days)
                 future_predictions ==
                     [j \in 1..forecast_days |-> predict(model, future_days[j])]
             IN  [forecast_df_is_None |-> FALSE,
                  forecast_df |->
                      [k \in 1..Len(y) |->
                          [days |-> X[k], amount |-> SFromInt(y[k]),
                           type |-> "Historical"]]
                      \o [j \in 1..forecast_days |->
                             [days |-> future_days[j],
                              amount |-> future_predictions[j],
                              type |-> "Forecast"]],
                  model |-> model,
                  message |->
                      [text |-> "Predicted total spending in the next {} days could reach around {}.",
                       forecast_days |-> forecast_days,
                       amount |-> format_2f(future_predictions[forecast_days])],
                  expense_data |-> converted]

\* forecast_spending asking for 6 expenses
forecast_spending_six(expense_data, forecast_days, lstsq_ulps) ==
    IF Len(expense_data.rows) < 6
    THEN [forecast_df_is_None |-> TRUE, forecast_df |-> <<>>,
          message |-> need_five_expenses, expense_data |-> expense_data]
    ELSE forecast_from_expenses(expense_data, forecast_days, lstsq_ulps)

\* forecast_spending for forecast_days >= 1: whether no forecast is returned,
\* the series, the message (its amount in hundredths, as printed), the fitted
\* line, and the caller's table as the call leaves it
forecast_spending(expense_data, forecast_days, lstsq_ulps) ==
    IF Len(expense_data.rows) < 5
    THEN [forecast_df_is_None |-> TRUE, forecast_df |-> <<>>,
          message |-> need_five_expenses, expense_data |-> expense_data]
    ELSE forecast_from_expenses(expense_data, forecast_days, lstsq_ulps)

(***************************************************************************)
(* Specification SpecForecast: forecast_spending called, once and again,   *)
(* on the caller's expense table.  The table holds up to MaxExpenses       *)
(* expenses, the last MaxVariedExpenses of them of 1 or 5 rupees and the   *)
(* others of 1 rupee, consecutive expenses on the same day or              *)
(* MaxExpenseGap days apart, listed oldest or newest first; the default    *)
(* number of forecast days is drawn for the tables listed oldest first.    *)
(***************************************************************************)
ExpenseAmounts == {1, 5}

ExpenseGaps == {0, MaxExpenseGap}

ForecastDayChoices == (1..MaxForecastDays) \cup {default_forecast_days}

\* the places by which the slope of the solver may differ from the nearest float
LstsqUlps == (0 - MaxLstsqUlps)..MaxLstsqUlps

expense_rows(amounts, gaps) ==
    [i \in 1..Len(amounts) |->
        [date |-> session_day(0, gaps, i), amount |-> amounts[i]]]

\* n amounts, all but the last MaxVariedExpenses of them 1 rupee
ExpenseAmountTuples(n) ==
    {[i \in 1..n |-> IF i <= n - MaxVariedExpenses THEN 1 ELSE amounts[i]] :
        amounts \in TupleSet(ExpenseAmounts, n)}

ExpenseLogs ==
    {<<>>} \cup
    UNION {{expense_rows(amounts, gaps) :
                amounts \in ExpenseAmountTuples(n),
                gaps \in TupleSet(ExpenseGaps, n - 1)} :
           n \in 1..MaxExpenses}

InitForecast ==
    /\ NoLiveSession
    /\ today = 0
    /\ total_xp = 0
    /\ xp_gained = 0
    /\ ret = NoCall
    /\ \E log \in ExpenseLogs, newest_first \in BOOLEAN,
          forecast_days \in ForecastDayChoices, lstsq_ulps \in LstsqUlps :
           /\ newest_first => forecast_days <= MaxForecastDays
           /\ user_data = ExpenseTable(IF newest_first THEN Reverse(log) ELSE log)
           /\ args = [op |-> "forecast_spending", expense_data |-> user_data,
                      forecast_days |-> forecast_days, lstsq_ulps |-> lstsq_ulps]

\* a call of forecast_spending on the caller's table in its current state;
\* ret keeps the result of the first call next to the result of the latest
CallForecastSpending ==
    /\ args.op = "forecast_spending"
    /\ (IF ret = NoCall THEN TRUE ELSE ret.calls < 2)
    /\ \E out \in {forecast_spending(user_data, args.forecast_days, args.lstsq_ulps)} :
           /\ ret' = [op |-> "forecast_spending",
                      calls |-> IF ret = NoCall THEN 1 ELSE ret.calls + 1,
                      value |-> [x \in DOMAIN out \ {"expense_data"} |-> out[x]],
                      first |-> IF ret = NoCall
                                THEN [x \in DOMAIN out \ {"expense_data"} |-> out[x]]
                                ELSE ret.first]
           /\ user_data' = out.expense_data
    /\ UNCHANGED <<session_state, clock, timers, auth_data, today, total_xp, xp_gained, args>>

NextForecast == CallForecastSpending

SpecForecast == InitForecast /\ [][NextForecast]_vars

\* the distinct dates of the expenses the call was given, in date order
ExpenseDates == SortedAsc(Range(Column(args.expense_data.rows, "date")))

\* the total of the expenses dated d or earlier
SpentUpTo(d) ==
    LET rows == args.expense_data.rows
        upto(r) == r.date <= d
    IN  SeqSum(Column(SelectSeq(rows, upto), "amount"))

\* C14: forecast_spending returns no forecast exactly when there are fewer
\* than 5 expenses or fewer than 2 distinct dates, each with its message; in
\* every other case it returns a series.
C14_NoForecastWithoutEnoughData ==
    ret.op = "forecast_spending" =>
        LET few == Len(args.expense_data.rows) < 5
            one_day == Len(ExpenseDates) < 2
        IN  /\ ret.value.forecast_df_is_None <=> (few \/ one_day)
            /\ few => ret.value.message = need_five_expenses
            /\ (~few /\ one_day) => ret.value.message = need_two_days
            /\ ~(few \/ one_day) => ret.value.forecast_df /= <<>>

\* 5 expenses on one date: no forecast, the message asks for 2 different days
C14_Witness ==
    /\ ret.op = "forecast_spending"
    /\ Len(args.expense_data.rows) = 5
    /\ Len(ExpenseDates) = 1
    /\ ret.value.forecast_df_is_None
    /\ ret.value.message = need_two_days

\* 5 expenses on 2 dates: a series is returned
C14_WitnessSeries ==
    /\ ret.op = "forecast_spending"
    /\ Len(args.expense_data.rows) = 5
    /\ Len(ExpenseDates) = 2
    /\ ~ret.value.forecast_df_is_None

\* C15: a returned series is one Historical point per distinct expense date, in
\* date order, at the day offset from the first date and with the running
\* total of the expenses as its value, followed by exactly forecast_days
\* Forecast points at the consecutive offsets after the last Historical one;
\* the offsets increase strictly over the whole series.
C15_SeriesIsHistoryThenForecast ==
    (ret.op = "forecast_spending" /\ ~ret.value.forecast_df_is_None) =>
        LET df == ret.value.forecast_df
            h == Len(ExpenseDates)
        IN  /\ Len(df) = h + args.forecast_days
            /\ \A k \in 1..h :
                   /\ df[k].type = "Historical"
                   /\ df[k].days = ExpenseDates[k] - ExpenseDates[1]
                   /\ df[k].amount = SFromInt(SpentUpTo(ExpenseDates[k]))
            /\ \A j \in 1..args.forecast_days :
                   /\ df[h + j].type = "Forecast"
                   /\ df[h + j].days = df[h].days + j
            /\ \A i \in 1..(Len(df) - 1) : df[i].days < df[i + 1].days

\* a series over 3 expense dates with the default 30 forecast days
C15_Witness ==
    /\ ret.op = "forecast_spending"
    /\ ~ret.value.forecast_df_is_None
    /\ Len(ExpenseDates) = 3
    /\ args.forecast_days = default_forecast_days
    /\ Len(ret.value.forecast_df) = 33
    /\ ret.value.forecast_df[3].type = "Historical"
    /\ ret.value.forecast_df[4].type = "Forecast"

\* two signed floats differ by less than 2^-30
SNear(s, t) == FLess(SSub(s, t).abs, [m |-> <<1>>, e |-> 0 - 30])

\* the fitted line at day offset 0 gives the first historical cumulative
\* value, up to float rounding
LineReproducesFirstValue ==
    SNear(predict(ret.value.model, 0), ret.value.forecast_df[1].amount)

\* the historical points lie on one line, in exact arithmetic
HistoryCollinear ==
    LET h == Len(ExpenseDates)
        days(k) == ExpenseDates[k] - ExpenseDates[1]
        amount(k) == SpentUpTo(ExpenseDates[k])
    IN  \A k \in 2..h :
            (amount(k) - amount(1)) * days(2) = (amount(2) - amount(1)) * days(k)

\* C16 (as claimed): for every table that gets a forecast, the fitted line at
\* day offset 0 reproduces the first historical cumulative value.
C16_LineReproducesFirstValueAlways ==
    (ret.op = "forecast_spending" /\ ~ret.value.forecast_df_is_None)
        => LineReproducesFirstValue

\* C16 (amended): the fitted line at day offset 0 reproduces the first
\* historical cumulative value, up to float rounding, when the historical
\* points lie on one line, as they always do when there are exactly 2 expense
\* dates.
C16_LineReproducesFirstValueWhenCollinear ==
    (ret.op = "forecast_spending" /\ ~ret.value.forecast_df_is_None) =>
        /\ Len(ExpenseDates) = 2 => HistoryCollinear
        /\ HistoryCollinear => LineReproducesFirstValue

\* a forecast over exactly 2 expense dates, the line through both points
C16_Witness ==
    /\ ret.op = "forecast_spending"
    /\ ~ret.value.forecast_df_is_None
    /\ Len(ExpenseDates) = 2
    /\ SpentUpTo(ExpenseDates[1]) > 0
    /\ LineReproducesFirstValue

\* 3 collinear historical points and a slope below the nearest float
C16_WitnessThreeDates ==
    /\ ret.op = "forecast_spending"
    /\ ~ret.value.forecast_df_is_None
    /\ Len(ExpenseDates) = 3
    /\ HistoryCollinear
    /\ args.lstsq_ulps < 0
    /\ LineReproducesFirstValue

(***************************************************************************)
(* GamificationSystem.check_achievements                                   *)
(***************************************************************************)
\* the keys of the achievements catalog
achievements ==
    {"first_session", "week_streak", "month_streak", "100_hours",
     "perfect_week", "quiz_master", "subject_expert"}

\* whether some subject's mean confidence is at least 4.0
some_subject_expert(rows) ==
    \E subject \in Range(Column(rows, "subject")) :
        LET of_subject(r) == r.subject = subject
            subject_confidence ==
                IntMean(Column(SelectSeq(rows, of_subject), "confidence_rating"))
        IN  ~FLess(subject_confidence, FromInt(4))

\* check_achievements(user_data) on the rows of the table, with
\* datetime.now().date() = now: the earned keys in the order they are appended
check_achievements(rows, now) ==
    IF rows = <<>> THEN <<>>
    ELSE LET current_streak == calculate_streak(DateColumn(rows), now)
             total_minutes == SeqSum(Column(rows, "duration_minutes"))
             total_hours == FDiv(total_minutes, 60)
             recent_data == Tail7(Column(rows, "confidence_rating"))
         IN  (IF Len(rows) >= 1 THEN <<"first_session">> ELSE <<>>)
             \o (IF current_streak >= 7 THEN <<"week_streak">> ELSE <<>>)
             \o (IF current_streak >= 30 THEN <<"month_streak">> ELSE <<>>)
             \o (IF ~FLess(total_hours, FHundred) THEN <<"100_hours">> ELSE <<>>)
             \o (IF Len(rows) >= 7 /\ ~FLess(IntMean(recent_data), FromInt(4))
                 THEN <<"perfect_week">> ELSE <<>>)
             \o (IF some_subject_expert(rows) THEN <<"subject_expert">> ELSE <<>>)

(***************************************************************************)
(* Specification SpecAchievements: check_achievements called, once and     *)
(* again, on a study log of up to MaxAchievementSessions sessions logged   *)
(* one a day, the latest of them today, yesterday or the day before, with  *)
(* or without a free day after the oldest session, and with or without a   *)
(* further session dated tomorrow.                                         *)
(***************************************************************************)
AchievementDurations == {30, 200}

\* the log of n daily sessions ending on day last; the sessions before the
\* latest run sessions are a day further back; the ratings are old for the
\* sessions before the latest 7, recent for the next 6 and latest for the
\* last; the subjects alternate when two_subjects
achievement_log(n, last, run, duration, old, recent, latest, two_subjects) ==
    [i \in 1..n |->
        study_row(<<IF two_subjects /\ i % 2 = 0 THEN "Physics" ELSE "Math", "Algebra">>,
                  (last - (n - i)) - (IF n - i >= run THEN 1 ELSE 0),
                  duration,
                  IF i = n THEN latest ELSE IF i > n - 7 THEN recent ELSE old)]

AchievementLogs(now) ==
    {achievement_log(n, now - back, n - short, duration, old, recent, latest, two_subjects)
       \o (IF future THEN <<study_row(<<"Math", "Algebra">>, now + 1, duration, recent)>>
           ELSE <<>>) :
        n \in 0..MaxAchievementSessions, back \in 0..2, short \in {0, 1},
        duration \in AchievementDurations, old \in {3, 5}, recent \in {3, 4},
        latest \in {3, 4, 5}, two_subjects \in BOOLEAN, future \in BOOLEAN}

InitAchievements ==
    /\ NoLiveSession
    /\ today = MaxAchievementSessions + 3
    /\ total_xp = 0
    /\ xp_gained = 0
    /\ ret = NoCall
    /\ \E log \in AchievementLogs(today) :
           /\ user_data = StudyTable(log)
           /\ args = [op |-> "check_achievements", user_data |-> user_data]

\* a call of check_achievements on the caller's table in its current state;
\* ret keeps the result of the first call next to the result of the latest
CallCheckAchievements ==
    /\ args.op = "check_achievements"
    /\ (IF ret = NoCall THEN TRUE ELSE ret.calls < 2)
    /\ \E out \in {check_achievements(user_data.rows, today)} :
           ret' = [op |-> "check_achievements",
                   calls |-> IF ret = NoCall THEN 1 ELSE ret.calls + 1,
                   value |-> out,
                   first |-> IF ret = NoCall THEN out ELSE ret.first]
    /\ UNCHANGED <<session_state, clock, timers, auth_data, user_data, today, total_xp, xp_gained, args>>

NextAchievements == CallCheckAchievements

SpecAchievements == InitAchievements /\ [][NextAchievements]_vars

\* the current streak of the specification: the run of consecutive study days
\* that ends today if today is a study day, and otherwise yesterday
CurrentStreak(S, now) ==
    IF now \in S THEN RunEndingAt(S, now) ELSE RunEndingAt(S, now - 1)

\* C19: check_achievements returns exactly the keys whose condition holds:
\* first_session iff the log is not empty, week_streak iff the current streak
\* is at least 7, month_streak iff it is at least 30, 100_hours iff the total
\* duration is at least 6000 minutes, perfect_week iff there are at least 7
\* sessions and the last 7 average at least 4.0, subject_expert iff some
\* subject averages at least 4.0; no other key is returned.
C19_AchievementsMatchConditions ==
    ret.op = "check_achievements" =>
        LET rows == args.user_data.rows
            keys == Range(ret.value)
            streak == CurrentStreak(Range(DateColumn(rows)), today)
            last7 == Tail7(Column(rows, "confidence_rating"))
            subject_total(s) ==
                LET of_subject(r) == r.subject = s
                IN  SeqSum(Column(SelectSeq(rows, of_subject), "confidence_rating"))
            subject_count(s) ==
                Cardinality({i \in 1..Len(rows) : rows[i].subject = s})
        IN  /\ "first_session" \in keys <=> rows /= <<>>
            /\ "week_streak" \in keys <=> streak >= 7
            /\ "month_streak" \in keys <=> streak >= 30
            /\ "100_hours" \in keys
                   <=> SeqSum(Column(rows, "duration_minutes")) >= 6000
            /\ "perfect_week" \in keys
                   <=> (Len(rows) >= 7 /\ SeqSum(last7) >= 4 * 7)
            /\ "subject_expert" \in keys
                   <=> \E s \in Range(Column(rows, "subject")) :
                           subject_total(s) >= 4 * subject_count(s)
            /\ keys \subseteq {"first_session", "week_streak", "month_streak",
                               "100_hours", "perfect_week", "subject_expert"}

\* C17: analyze_weaknesses and forecast_spending never mutate the table they
\* are given: after the call the caller's table has the same columns, the same
\* values and the same value types as before the call.
C17_InputTableUnchanged ==
    /\ ret.op = "forecast_spending" => user_data = args.expense_data
    /\ ret.op = "analyze_weaknesses" => user_data = args.user_data

(***************************************************************************)
(* Specification SpecTwice: each analytics entry point called, once and    *)
(* again, on the table the caller holds, with the same current date, and   *)
(* each entry point of the study table called after another one.  The      *)
(* later call gets the table as the first call left it.  The study tables  *)
(* of analyze_weaknesses have three topics, with or without four sessions  *)
(* of a fourth; the logs of the gamification entry points are daily        *)
(* sessions ending today, yesterday or the day before; get_level and       *)
(* get_level_progress get the total of the log, as the sidebar computes it.*)
(***************************************************************************)
TwiceStudyTables ==
    {StudyTable(g1 \o low_sessions \o g3 \o later) :
        g1 \in WeaknessGroups(AllTopics[4], 0, MaxTopicSessions) \ {<<>>},
        g3 \in FullGroups(AllTopics[5], 2, 1),
        later \in {<<>>, later_sessions}}

TwiceLogs(now) ==
    {achievement_log(n, now - back, n, 30, 3, 4, 4, two_subjects)
       \o (IF future THEN <<study_row(<<"Math", "Algebra">>, now + 1, 30, 4)>>
           ELSE <<>>) :
        n \in {0, 1, 7, MaxAchievementSessions}, back \in 0..2,
        two_subjects \in BOOLEAN, future \in BOOLEAN}

\* the entry points of gamification.py and utils.py that take the study table
\* or its total
TableEntryPoints ==
    {"calculate_streak", "calculate_total_xp", "get_level", "get_level_progress"}

InitTwice ==
    /\ NoLiveSession
    /\ total_xp = 0
    /\ xp_gained = 0
    /\ ret = NoCall
    /\ \/ /\ today = 0
          /\ user_data \in TwiceStudyTables
          /\ args = [op |-> "analyze_weaknesses", user_data |-> user_data]
       \/ /\ today = 0
          /\ \E log \in ExpenseLogs, forecast_days \in ForecastDayChoices,
                lstsq_ulps \in LstsqUlps :
                 /\ user_data = ExpenseTable(log)
                 /\ args = [op |-> "forecast_spending", expense_data |-> user_data,
                            forecast_days |-> forecast_days,
                            lstsq_ulps |-> lstsq_ulps]
       \/ /\ today = MaxAchievementSessions + 3
          /\ \E log \in TwiceLogs(today) :
                 /\ user_data = StudyTable(log)
                 /\ args \in {[op |-> op, user_data |-> user_data] :
                                op \in {"check_achievements"} \cup TableEntryPoints}

\* what a call gives: the value it returns or the exception it raises
Returns(value) == [returns |-> value]

Raises(exception) == [raises |-> exception]

\* calculate_total_xp on a study table.  For every row,
\* _calculate_streak_for_date turns the date of the row into a datetime.date
\* and evaluates user_data['date'] <= target_date: on a column of dates this
\* selects the rows, and on a datetime64 column the comparison with a date
\* raises TypeError.
calculate_total_xp_of_table(table) ==
    IF table.rows = <<>> THEN Returns(0)
    ELSE IF table.date_dtype = "datetime64" THEN Raises("TypeError")
    ELSE Returns(calculate_total_xp(table.rows))

\* calculate_total_xp, or the level function op of the sidebar on the total
\* of the table, total being what calculate_total_xp gives: its TypeError
\* reaches the caller
total_or_level(op, total) ==
    IF "raises" \in DOMAIN total THEN total
    ELSE Returns(CASE op = "get_level" -> get_level(total.returns)
                   [] op = "get_level_progress" -> get_level_progress(total.returns)
                   [] op = "calculate_total_xp" -> total.returns)

\* what analyze_weaknesses gives, and the table as it leaves it
analysis_of(out) ==
    [gives |-> Returns([weak_topics |-> out.weak_topics,
                        recommendations |-> out.recommendations]),
     user_data |-> out.user_data]

\* the entry point op on a study table with the current date now: what the
\* call gives, and the table as the call leaves it.  calculate_streak (and
\* check_achievements through it) converts the date column with
\* pd.to_datetime(...).dt.date, and analyze_weaknesses sorts and groups it,
\* which a column of either type allows; the level functions get the total
\* of the table, as the sidebar computes it.
entry_point(op, table, now) ==
    CASE op = "analyze_weaknesses" -> analysis_of(analyze_weaknesses(table))
      [] op = "check_achievements" ->
             [gives |-> Returns(check_achievements(table.rows, now)),
              user_data |-> table]
      [] op = "calculate_streak" ->
             [gives |-> Returns(calculate_streak(DateColumn(table.rows), now)),
              user_data |-> table]
      [] OTHER ->
             [gives |-> total_or_level(op, calculate_total_xp_of_table(table)),
              user_data |-> table]

\* a call of the entry point op on the caller's table in its current state,
\* out being what it gives
CallTableEntryPoint(op, out) ==
    /\ args.op = op
    /\ (IF ret = NoCall THEN TRUE ELSE ret.calls < 2)
    /\ ret' = [op |-> op,
               calls |-> IF ret = NoCall THEN 1 ELSE ret.calls + 1,
               value |-> out,
               first |-> IF ret = NoCall THEN out ELSE ret.first]
    /\ UNCHANGED <<session_state, clock, timers, auth_data, user_data, today, total_xp, xp_gained, args>>

\* a call of the entry point op after one call of another entry point, on
\* the caller's study table as that call left it; ret keeps what the call
\* gives next to what the same call gives on the table as the caller built it
CallLater(op) ==
    /\ "user_data" \in DOMAIN args
    /\ op /= args.op
    /\ ret /= NoCall
    /\ ret.calls = 1
    /\ ret.op = args.op
    /\ \E out \in {[table \in {user_data, args.user_data} |->
                        entry_point(op, table, today)]} :
           /\ ret' = [op |-> op, calls |-> 2,
                      value |-> out[user_data].gives,
                      unaffected |-> out[args.user_data].gives]
           /\ user_data' = out[user_data].user_data
    /\ UNCHANGED <<session_state, clock, timers, auth_data, today, total_xp, xp_gained, args>>

NextTwice ==
    \/ CallAnalyzeWeaknesses
    \/ CallForecastSpending
    \/ CallCheckAchievements
    \/ \E op \in TableEntryPoints :
           /\ args.op = op
           /\ \E out \in {entry_point(op, user_data, today)} :
                  CallTableEntryPoint(op, out.gives)
    \/ \E op \in {"check_achievements", "analyze_weaknesses"} \cup TableEntryPoints :
           CallLater(op)

SpecTwice == InitTwice /\ [][NextTwice]_vars

\* an analytics entry point called twice in a row on the same table with the
\* same current date gives the same output both times, whatever the first
\* call left behind in the table
C18_SecondCallSameAsFirst ==
    (ret /= NoCall /\ ret.calls = 2 /\ ret.op = args.op) => ret.value = ret.first

\* a call of an entry point after a call of another one gives what it gives
\* on the table as the caller built it
C18_LaterCallUnaffected ==
    (ret /= NoCall /\ ret.calls = 2 /\ ret.op /= args.op)
        => ret.value = ret.unaffected

\* C18: an analytics entry point called twice in a row with the same table
\* and the same current date gives the same output both times, and no call
\* leaves state behind that changes the result of a later call.
C18_NoCallChangesALaterCall ==
    /\ C18_SecondCallSameAsFirst
    /\ C18_LaterCallUnaffected

\* calculate_total_xp called on a table that analyze_weaknesses has been
\* called on raises TypeError, the total being returned without that call
C18_TotalXpRaisesAfterAnalysis ==
    /\ args.op = "analyze_weaknesses"
    /\ ret.op = "calculate_total_xp"
    /\ ret.calls = 2
    /\ ret.value = Raises("TypeError")
    /\ "returns" \in DOMAIN ret.unaffected
    /\ ret.unaffected.returns > 0

\* analyze_weaknesses has been called a second time on a table that its first
\* call has changed, and has found weak topics
C18_Witness ==
    /\ ret.op = "analyze_weaknesses"
    /\ ret.calls = 2
    /\ user_data /= args.user_data
    /\ user_data.date_dtype = "datetime64"
    /\ ret.value.weak_topics /= <<>>
    /\ ret.value = ret.first

(***************************************************************************)
(* utils.py: the general recommendations                                   *)
(***************************************************************************)
\* get_date_range_data: the rows dated in the days_back days up to now
get_date_range_data(rows, days_back, now) ==
    LET in_range(r) == r.date >= now - days_back /\ r.date <= now
    IN  SelectSeq(rows, in_range)

\* calculate_consistency_score(user_data, days_back) of a table with rows
calculate_consistency_score(rows, days_back, now) ==
    LET recent_data == get_date_range_data(rows, days_back, now)
        unique_study_days == Cardinality(Range(Column(recent_data, "date")))
        possible_days ==
            Min(days_back, (now - SeqMin(Column(recent_data, "date"))) + 1)
    IN  IF recent_data = <<>> \/ possible_days = 0 THEN FZero
        ELSE FMin(FHundred, FMul(IntDiv(unique_study_days, possible_days), FHundred))

\* calculate_confidence_trend with window_size = 5: 0 with fewer than 10 rows
calculate_confidence_trend(rows) ==
    IF Len(rows) < 10 THEN FDiff(FZero, FZero)
    ELSE LET ratings == Column(sort_values_date(rows), "confidence_rating")
             first_portion == IntMean(SubSeq(ratings, 1, 5))
             last_portion == IntMean(SubSeq(ratings, Len(ratings) - 4, Len(ratings)))
         IN  FDiff(last_portion, first_portion)

\* sort_values('avg_confidence'): entries with equal means keep their order
RECURSIVE InsertByConfidence(_, _)
InsertByConfidence(sorted, t) ==
    IF sorted = <<>> THEN <<t>>
    ELSE IF ~FLess(t.avg_confidence, sorted[Len(sorted)].avg_confidence)
    THEN Append(sorted, t)
    ELSE Append(InsertByConfidence(Front(sorted), t), sorted[Len(sorted)])

RECURSIVE sort_by_avg_confidence(_)
sort_by_avg_confidence(q) ==
    IF q = <<>> THEN <<>>
    ELSE InsertByConfidence(sort_by_avg_confidence(Front(q)), q[Len(q)])

\* get_weak_topics with confidence_threshold = 3.0 and min_sessions = 2
get_weak_topics(rows) ==
    LET keys == GroupKeys(rows)
        topic_stats ==
            [k \in 1..Len(keys) |->
                LET ratings == Column(TopicRows(rows, keys[k]), "confidence_rating")
                IN  [subject |-> keys[k][1], chapter |-> keys[k][2],
                     avg_confidence |-> FRound2(IntMean(ratings)),
                     session_count |-> Len(ratings)]]
        weak(t) == FLess(t.avg_confidence, FromInt(3)) /\ t.session_count >= 2
    IN  sort_by_avg_confidence(SelectSeq(topic_stats, weak))

\* get_study_habits_analysis: the entries get_study_recommendations reads
get_study_habits_analysis(rows, now) ==
    LET recent_data == get_date_range_data(rows, 7, now)
    IN  [avg_session_length |-> IntMean(Column(rows, "duration_minutes")),
         avg_confidence |-> IntMean(Column(rows, "confidence_rating")),
         confidence_improvement |-> calculate_confidence_trend(rows),
         subjects_studied |-> Cardinality(Range(Column(rows, "subject"))),
         current_streak |-> calculate_streak(DateColumn(rows), now),
         consistency_30d |-> calculate_consistency_score(rows, 30, now),
         recent_study_time |-> SeqSum(Column(recent_data, "duration_minutes")),
         recent_sessions |-> Len(recent_data)]

start_logging ==
    Message("Start logging your study sessions to get personalized recommendations!", <<>>)

excellent_habits == Message("Excellent study habits! Keep up the great work!", <<>>)

\* the messages the rules of get_study_recommendations append for the habits
\* and the weak topics of a table
study_rules(habits, weak_topics) ==
        (IF FLess(habits.avg_session_length, FromInt(15))
         THEN <<Message("Try longer study sessions (20-45 minutes) for better focus and retention.", <<>>)>>
         ELSE IF FLess(FromInt(90), habits.avg_session_length)
         THEN <<Message("Consider breaking long sessions into smaller chunks with breaks.", <<>>)>>
         ELSE <<>>)
        \o
        (IF habits.current_streak = 0
         THEN <<Message("Start building a study streak! Consistent daily practice is key to success.", <<>>)>>
         ELSE IF FLess(habits.consistency_30d, FromInt(50))
         THEN <<Message("Try to study more regularly. Aim for at least 4-5 sessions per week.", <<>>)>>
         ELSE <<>>)
        \o
        (IF FLess(habits.avg_confidence, FromInt(3))
         THEN <<Message("Focus on building confidence. Review fundamentals and practice more problems.", <<>>)>>
         ELSE IF SLessNeg(habits.confidence_improvement, FDec(3, 10))
         THEN <<Message("Your confidence seems to be declining. Consider reviewing recent topics or seeking help.", <<>>)>>
         ELSE <<>>)
        \o
        (IF habits.subjects_studied = 1
         THEN <<Message("Consider studying multiple subjects to maintain engagement and prevent burnout.", <<>>)>>
         ELSE IF habits.subjects_studied > 5
         THEN <<Message("You're studying many subjects. Ensure you're giving adequate time to each.", <<>>)>>
         ELSE <<>>)
        \o
        (IF habits.recent_sessions = 0
         THEN <<Message("You haven't studied recently. Get back on track with a short session today!", <<>>)>>
         ELSE IF habits.recent_study_time < 60
         THEN <<Message("Increase your weekly study time for better progress.", <<>>)>>
         ELSE <<>>)
        \o
        (IF weak_topics /= <<>>
         THEN <<Message("Give extra attention to: {}",
                        [k \in 1..Len(Take(weak_topics, 2)) |->
                            <<weak_topics[k].subject, weak_topics[k].chapter>>])>>
         ELSE <<>>)

\* the messages of the rules of get_study_recommendations on a table that is
\* not empty, before the fallback and the limit
study_rules_fired(rows, now) ==
    study_rules(get_study_habits_analysis(rows, now), get_weak_topics(rows))

\* the end of both composers: the fallback when no rule has appended a
\* message, then the first limit messages
fallback_and_limit(fired, fallback, limit) ==
    Take(IF fired = <<>> THEN <<fallback>> ELSE fired, limit)

\* get_study_recommendations(user_data) with datetime.now().date() = now
get_study_recommendations(rows, now) ==
    IF rows = <<>> THEN <<start_logging>>
    ELSE fallback_and_limit(study_rules_fired(rows, now), excellent_habits, 5)

(***************************************************************************)
(* Specification SpecRecommend: the two composers called on the tables of  *)
(* a user.  get_study_recommendations gets a log of up to                  *)
(* MaxGeneralSessions sessions of 10 or 30 minutes dated today, yesterday  *)
(* or 8 days ago, or a log of ten daily sessions; _generate_recommendations*)
(* gets what analyze_weaknesses passes it for a table of up to             *)
(* MaxTopicSessions daily sessions of each of three topics, with or        *)
(* without one more session ten days later.                                *)
(***************************************************************************)
GeneralSessions(now) ==
    {study_row(<<subject, "Algebra">>, date, duration, rating) :
        subject \in {"Math", "Physics"}, date \in {now - 8, now - 1, now},
        duration \in {10, 30}, rating \in {2, 4}}

\* ten daily sessions up to now, the subjects alternating, the first five
\* rated early and the last five late
ten_sessions(now, duration, early, late) ==
    [i \in 1..10 |->
        study_row(<<IF i % 2 = 0 THEN "Physics" ELSE "Math", "Algebra">>,
                  now - (10 - i), duration, IF i <= 5 THEN early ELSE late)]

GeneralLogs(now) ==
    SeqsUpTo(GeneralSessions(now), MaxGeneralSessions)
    \cup {ten_sessions(now, duration, early, late) :
            duration \in {30, 100}, early \in {3, 4}, late \in {3, 4}}

\* n daily sessions of a topic from day first, all of one length and rating
even_sessions(topic, first, n, duration, rating) ==
    [i \in 1..n |-> study_row(topic, first + (i - 1), duration, rating)]

RecommendTables ==
    {StudyTable(even_sessions(AllTopics[3], 0, n1, duration, r1)
                \o even_sessions(AllTopics[4], 0, n2, duration, r2)
                \o even_sessions(AllTopics[5], 0, n3, duration, r2)
                \o (IF later THEN even_sessions(AllTopics[1], MaxTopicSessions + 10,
                                                1, duration, 4)
                    ELSE <<>>)) :
        n1 \in 0..MaxTopicSessions, n2 \in 0..MaxTopicSessions,
        n3 \in 0..MaxTopicSessions, duration \in {10, 30, 100},
        r1 \in {1, 4}, r2 \in {1, 4}, later \in BOOLEAN}

InitRecommend ==
    /\ NoLiveSession
    /\ today = 8
    /\ total_xp = 0
    /\ xp_gained = 0
    /\ ret = NoCall
    /\ \/ \E log \in GeneralLogs(today) :
              /\ user_data = StudyTable(log)
              /\ args = [op |-> "get_study_recommendations", user_data |-> user_data]
       \/ /\ user_data \in {t \in RecommendTables : Len(t.rows) >= 5}
          /\ args = [op |-> "_generate_recommendations", user_data |-> user_data]

\* ret.fired is the number of messages the rules have appended when the
\* composer tests whether there is any
CallGetStudyRecommendations ==
    /\ args.op = "get_study_recommendations"
    /\ ret = NoCall
    /\ ret' = [op |-> "get_study_recommendations",
               value |-> get_study_recommendations(user_data.rows, today),
               fired |-> IF user_data.rows = <<>> THEN 0
                         ELSE Len(study_rules_fired(user_data.rows, today))]
    /\ UNCHANGED <<session_state, clock, timers, auth_data, user_data, today, total_xp, xp_gained, args>>

\* the arguments analyze_weaknesses passes to _generate_recommendations for
\* the table: the weak topics, the insights, and the table as the analysis
\* has left it by then
recommendation_arguments(table) ==
    LET topic_analysis == _prepare_topic_analysis(table.rows)
        analysed == _generate_ml_insights(table, topic_analysis)
    IN  [weak_topics |-> _identify_weak_topics(topic_analysis),
         insights |-> analysed.insights,
         user_data |-> analysed.user_data]

CallGenerateRecommendations ==
    /\ args.op = "_generate_recommendations"
    /\ ret = NoCall
    /\ \E passed \in {recommendation_arguments(user_data)} :
       \E out \in {_generate_recommendations(passed.weak_topics, passed.insights,
                                              passed.user_data)} :
           /\ ret' = [op |-> "_generate_recommendations",
                      value |-> out.recommendations,
                      fired |-> Len(fired_recommendations(passed.weak_topics,
                                                          passed.insights,
                                                          passed.user_data.rows))]
           /\ user_data' = out.user_data
    /\ UNCHANGED <<session_state, clock, timers, auth_data, today, total_xp, xp_gained, args>>

NextRecommend == CallGetStudyRecommendations \/ CallGenerateRecommendations

SpecRecommend == InitRecommend /\ [][NextRecommend]_vars

\* the limit and the fallback message of the composer that was called
MessageLimit == IF ret.op = "_generate_recommendations" THEN 6 ELSE 5

FallbackMessage ==
    IF ret.op = "_generate_recommendations" THEN fallback_recommendation
    ELSE excellent_habits

ComposerCalled ==
    ret.op \in {"_generate_recommendations", "get_study_recommendations"}

\* C20 as stated: for every input each composer returns between 1 and its
\* limit (6 or 5) messages, and the positive fallback message is returned
\* exactly when no rule fired, and is then the only message.
C20_FallbackExactlyWhenNoRule ==
    ComposerCalled =>
        /\ Len(ret.value) >= 1
        /\ Len(ret.value) <= MessageLimit
        /\ FallbackMessage \in Range(ret.value) <=> ret.fired = 0
        /\ FallbackMessage \in Range(ret.value) => ret.value = <<FallbackMessage>>

\* C20, amended: each composer returns between 1 and its limit messages; on
\* a table that is not empty the positive fallback message is returned
\* exactly when no rule fired, and is then the only message; on the empty
\* table get_study_recommendations returns the prompt to start logging alone.
C20_FallbackWhenNoRuleOnSessions ==
    ComposerCalled =>
        /\ Len(ret.value) >= 1
        /\ Len(ret.value) <= MessageLimit
        /\ FallbackMessage \in Range(ret.value)
               <=> (ret.fired = 0 /\ args.user_data.rows /= <<>>)
        /\ FallbackMessage \in Range(ret.value) => ret.value = <<FallbackMessage>>
        /\ args.user_data.rows = <<>> => ret.value = <<start_logging>>

\* get_study_recommendations has returned the fallback alone for a log with
\* sessions
C20_Witness ==
    /\ ret.op = "get_study_recommendations"
    /\ args.user_data.rows /= <<>>
    /\ ret.fired = 0
    /\ ret.value = <<excellent_habits>>

\* the other cases of C20: the limit cutting the messages of either composer,
\* the fallback of _generate_recommendations, the empty table
C20_WitnessGeneralLimit ==
    ret.op = "get_study_recommendations" /\ ret.fired = 6 /\ Len(ret.value) = 5

C20_WitnessWeaknessLimit ==
    ret.op = "_generate_recommendations" /\ ret.fired > 6 /\ Len(ret.value) = 6

C20_WitnessWeaknessFallback ==
    ret.op = "_generate_recommendations" /\ ret.value = <<fallback_recommendation>>

C20_WitnessEmptyTable ==
    /\ ret.op = "get_study_recommendations"
    /\ args.user_data.rows = <<>>
    /\ ret.value = <<start_logging>>

(***************************************************************************)
(* Specification SpecOrder: an analytics entry point called on a session   *)
(* log and on a reordering of its rows, with the same current date.  The   *)
(* logs are: up to MaxOrderRows sessions of today and yesterday, in every  *)
(* order; two topics with MaxTopicSessions and 2 sessions; 7 or 8 daily    *)
(* sessions.  The longer logs are reordered by reversing them or by moving *)
(* one row to the end.                                                     *)
(***************************************************************************)
OrderToday == 10

\* every ordering of the rows of q
AllOrderings(q) ==
    {[i \in 1..Len(q) |-> q[p[i]]] :
        p \in {f \in [1..Len(q) -> 1..Len(q)] :
                  \A i, j \in 1..Len(q) : i /= j => f[i] /= f[j]}}

\* q with row i moved to the end
MoveToEnd(q, i) ==
    SubSeq(q, 1, i - 1) \o SubSeq(q, i + 1, Len(q)) \o <<q[i]>>

Orderings(q) ==
    IF Len(q) <= MaxOrderRows THEN AllOrderings(q)
    ELSE {Reverse(q)} \cup {MoveToEnd(q, i) : i \in 1..Len(q)}

OrderSessions ==
    {study_row(<<"Math", "Algebra">>, date, 45, rating) :
        date \in {OrderToday - 1, OrderToday}, rating \in {2, 5}}

OrderLogs ==
    SeqsUpTo(OrderSessions, MaxOrderRows)
    \cup {g1 \o g2 :
            g1 \in FullGroups(AllTopics[4], OrderToday - 4, MaxTopicSessions),
            g2 \in FullGroups(AllTopics[3], OrderToday - 3, 2)}
    \cup {achievement_log(n, OrderToday - back, n, 30, old, 4, latest, FALSE) :
            n \in {7, 8}, back \in {0, 1}, old \in {3, 5}, latest \in {3, 4, 5}}

OrderEntryPoints ==
    {"calculate_total_xp", "calculate_streak", "check_achievements",
     "analyze_weaknesses"}

InitOrder ==
    /\ NoLiveSession
    /\ today = OrderToday
    /\ total_xp = 0
    /\ xp_gained = 0
    /\ ret = NoCall
    /\ \E log \in OrderLogs :
           /\ user_data = StudyTable(log)
           /\ args \in {[op |-> op, user_data |-> user_data,
                         permuted |-> StudyTable(q)] :
                           op \in OrderEntryPoints, q \in Orderings(log)}

\* the entry point op called on the log and on the reordered log: out and
\* permuted_out are what the two calls return
CallOnBothOrders(op, out, permuted_out) ==
    /\ args.op = op
    /\ ret = NoCall
    /\ ret' = [op |-> op, value |-> out, permuted |-> permuted_out]
    /\ UNCHANGED <<session_state, clock, timers, auth_data, today, total_xp, xp_gained, args>>

NextOrder ==
    \/ /\ CallOnBothOrders("calculate_total_xp",
                           calculate_total_xp(args.user_data.rows),
                           calculate_total_xp(args.permuted.rows))
       /\ UNCHANGED user_data
    \/ /\ CallOnBothOrders("calculate_streak",
                           calculate_streak(DateColumn(args.user_data.rows), today),
                           calculate_streak(DateColumn(args.permuted.rows), today))
       /\ UNCHANGED user_data
    \/ /\ CallOnBothOrders("check_achievements",
                           check_achievements(args.user_data.rows, today),
                           check_achievements(args.permuted.rows, today))
       /\ UNCHANGED user_data
    \/ \E analysed \in {analyze_weaknesses(args.user_data)} :
           /\ CallOnBothOrders("analyze_weaknesses",
                               analysed.weak_topics,
                               analyze_weaknesses(args.permuted).weak_topics)
           /\ user_data' = analysed.user_data

SpecOrder == InitOrder /\ [][NextOrder]_vars

\* C21: the analytics do not depend on the order of the session log: for any
\* log and any permutation of its rows, calculate_total_xp, calculate_streak,
\* check_achievements and the weak-topic list of analyze_weaknesses (entries,
\* trends and scores) are the same on the log and on the permuted log.
C21_OrderDoesNotMatter ==
    ret /= NoCall => ret.value = ret.permuted

\* the part of C21 that holds: the total XP and the streak are the same on
\* the log and on the permuted log
OrderFreeTotals ==
    ret.op \in {"calculate_total_xp", "calculate_streak"} => ret.value = ret.permuted

\* perfect_week earned on a log and not on a reordering of it
OrderChangesAchievements ==
    /\ ret.op = "check_achievements"
    /\ "perfect_week" \in Range(ret.value)
    /\ "perfect_week" \notin Range(ret.permuted)

\* a topic weak on a log and not on a reordering of it
OrderChangesWeakTopics ==
    /\ ret.op = "analyze_weaknesses"
    /\ Len(ret.value) /= Len(ret.permuted)

\* the total and the streak computed on a log of several days and on a
\* permutation that changes the log
OrderFreeTotalsReached ==
    /\ ret.op = "calculate_total_xp"
    /\ args.user_data /= args.permuted
    /\ Cardinality(Range(DateColumn(args.user_data.rows))) > 1
    /\ ret.value > 0

(***************************************************************************)
(* Specification SpecStreakForDate: _calculate_streak_for_date called on   *)
(* a date column and a target date, and again on the column without the    *)
(* dates after the target.                                                 *)
(***************************************************************************)
InitStreakForDate ==
    /\ NoLiveSession
    /\ user_data = <<>>
    /\ today = 0
    /\ total_xp = 0
    /\ xp_gained = 0
    /\ args \in {[op |-> "_calculate_streak_for_date", dates |-> q,
                  target_date |-> t] :
                    q \in SeqsUpTo(CalendarDays, MaxDates), t \in CalendarDays}
    /\ ret = NoCall

\* the rows of a date column dated target_date or before
UpTo(date_column, target_date) ==
    LET not_later(d) == d <= target_date
    IN  SelectSeq(date_column, not_later)

CallCalculateStreakForDate ==
    /\ args.op = "_calculate_streak_for_date"
    /\ ret = NoCall
    /\ ret' = [op |-> "_calculate_streak_for_date",
               value |-> _calculate_streak_for_date(args.dates, args.target_date),
               without_later |->
                   _calculate_streak_for_date(UpTo(args.dates, args.target_date),
                                              args.target_date)]
    /\ UNCHANGED <<session_state, clock, timers, auth_data, user_data, today, total_xp, xp_gained, args>>

NextStreakForDate == CallCalculateStreakForDate

SpecStreakForDate == InitStreakForDate /\ [][NextStreakForDate]_vars

\* C22: _calculate_streak_for_date(log, t) is 0 when no session of the log is
\* dated t; otherwise it is the length of the run of consecutive calendar
\* days present in the log that ends at t, which is at least 1; sessions
\* dated after t do not change the result.
C22_StreakForDateIsRunEndingAtTarget ==
    ret.op = "_calculate_streak_for_date" =>
        LET S == Range(args.dates)
            t == args.target_date
        IN  /\ t \notin S => ret.value = 0
            /\ t \in S => (ret.value >= 1 /\ ret.value = RunEndingAt(S, t))
            /\ ret.value = ret.without_later

\* a run of two days ending at the target, a free day before it, and a
\* session dated after the target
C22_Witness ==
    /\ ret.op = "_calculate_streak_for_date"
    /\ args.target_date = 2
    /\ Range(args.dates) = {1, 2, 3}
    /\ ret.value = 2

\* no session dated the target, sessions the day before and the day after
C22_WitnessNoSession ==
    /\ ret.op = "_calculate_streak_for_date"
    /\ args.target_date = 2
    /\ Range(args.dates) = {1, 3}
    /\ ret.value = 0

(***************************************************************************)
(* Specification SpecWeakTopics: analyze_weaknesses called, once and       *)
(* again, on a table of two topics.  The first topic has up to             *)
(* MaxTopicSessions sessions rated 1, 3 or 5, on one day, on consecutive   *)
(* days or MaxSpreadGap days apart, listed oldest or newest first; the     *)
(* second has up to MaxTopicSessions sessions rated 4.  One more table     *)
(* holds a single topic of ManySessions sessions of one day, all rated 3   *)
(* but the last, rated 2.                                                  *)
(***************************************************************************)
MaxSpreadGap == 6
ManySessions == 201

SpreadGroups(topic, first, rating_choices, gap_choices) ==
    UNION {{group_rows(topic, first, ratings, [i \in 1..(n - 1) |-> gap]) :
                ratings \in TupleSet(rating_choices, n), gap \in gap_choices} :
           n \in 0..MaxTopicSessions}

many_sessions ==
    [i \in 1..ManySessions |->
        study_row(AllTopics[4], 0, 30, IF i = ManySessions THEN 2 ELSE 3)]

WeakTopicTables ==
    {StudyTable((IF newest_first THEN Reverse(g1) ELSE g1) \o g2) :
        g1 \in SpreadGroups(AllTopics[4], 0, {1, 3, 5}, {0, 1, MaxSpreadGap}),
        g2 \in SpreadGroups(AllTopics[3], 1, {4}, {0, MaxSpreadGap}),
        newest_first \in BOOLEAN}
    \cup {StudyTable(many_sessions)}

InitWeakTopics ==
    /\ NoLiveSession
    /\ today = 0
    /\ total_xp = 0
    /\ xp_gained = 0
    /\ ret = NoCall
    /\ user_data \in WeakTopicTables
    /\ args = [op |-> "analyze_weaknesses", user_data |-> user_data]

NextWeakTopics == CallAnalyzeWeaknesses

SpecWeakTopics == InitWeakTopics /\ [][NextWeakTopics]_vars

\* the topic has an entry in a list of weak topics
Listed(weak_topics, topic) ==
    \E k \in 1..Len(weak_topics) :
        <<weak_topics[k].subject, weak_topics[k].chapter>> = topic

\* the criteria in exact arithmetic, on the ratings of a group in date order
\* (sessions of one day in log order) and the number of days it spans
MeanBelowThree(ratings) == SeqSum(ratings) < 3 * Len(ratings)

\* the mean, rounded to 2 decimals, is below 3.0: the mean is below 2.995
MeanRoundsBelowThree(ratings) == 200 * SeqSum(ratings) < 599 * Len(ratings)

\* mean of the later half minus mean of the earlier half is below -0.5
TrendBelowMinusHalf(ratings) ==
    LET n == Len(ratings)
        mid == n \div 2
        first_sum == SeqSum(SubSeq(ratings, 1, mid))
        second_sum == SeqSum(SubSeq(ratings, mid + 1, n))
    IN  /\ n >= 2
        /\ 2 * (second_sum * mid - first_sum * (n - mid)) < 0 - (mid * (n - mid))

\* sessions / days is below 0.3
ConsistencyBelowLimit(count, days) == 10 * count < 3 * days

GroupRatings(rows, topic) ==
    Column(sort_values_date(TopicRows(rows, topic)), "confidence_rating")

GroupDays(rows, topic) ==
    (SeqMax(Column(TopicRows(rows, topic), "date"))
     - SeqMin(Column(TopicRows(rows, topic), "date"))) + 1

\* C23: a (subject, topic) group appears in the weak-topic list if and only
\* if it has at least 3 sessions and at least one of: mean confidence < 3.0;
\* improvement trend < -0.5; consistency (sessions / days spanned) < 0.3.
C23_WeakIffCriteria ==
    ret.op = "analyze_weaknesses" =>
        LET rows == args.user_data.rows
        IN  \A k \in 1..Len(AllTopics) :
                LET ratings == GroupRatings(rows, AllTopics[k])
                IN  Listed(ret.value.weak_topics, AllTopics[k])
                    <=> /\ Len(ratings) >= 3
                        /\ \/ MeanBelowThree(ratings)
                           \/ TrendBelowMinusHalf(ratings)
                           \/ ConsistencyBelowLimit(Len(ratings),
                                                    GroupDays(rows, AllTopics[k]))

\* C23, amended: on a log of at least 5 sessions, a group appears in the
\* weak-topic list if and only if it has at least 3 sessions and at least one
\* of: mean confidence, rounded to 2 decimals, < 3.0; improvement trend
\* < -0.5; consistency < 0.3.  On a shorter log the list is empty.
C23_WeakIffCriteriaOnRoundedMean ==
    ret.op = "analyze_weaknesses" =>
        LET rows == args.user_data.rows
        IN  \A k \in 1..Len(AllTopics) :
                LET ratings == GroupRatings(rows, AllTopics[k])
                IN  Listed(ret.value.weak_topics, AllTopics[k])
                    <=> /\ Len(rows) >= 5
                        /\ Len(ratings) >= 3
                        /\ \/ MeanRoundsBelowThree(ratings)
                           \/ TrendBelowMinusHalf(ratings)
                           \/ ConsistencyBelowLimit(Len(ratings),
                                                    GroupDays(rows, AllTopics[k]))

\* a group of 3 sessions rated 5 that is weak by its consistency alone, next
\* to a group of 2 sessions
C23_Witness ==
    /\ ret.op = "analyze_weaknesses"
    /\ Len(args.user_data.rows) = 5
    /\ GroupRatings(args.user_data.rows, AllTopics[4]) = <<5, 5, 5>>
    /\ Listed(ret.value.weak_topics, AllTopics[4])
    /\ ~Listed(ret.value.weak_topics, AllTopics[3])

\* a group weak by its trend alone: rated 5, 3, 3 on consecutive days
C23_WitnessTrend ==
    /\ ret.op = "analyze_weaknesses"
    /\ GroupRatings(args.user_data.rows, AllTopics[4]) = <<5, 3, 3>>
    /\ GroupDays(args.user_data.rows, AllTopics[4]) = 3
    /\ Listed(ret.value.weak_topics, AllTopics[4])

\* a group of 3 sessions meeting no criterion, in a log of 6 sessions
C23_WitnessNotWeak ==
    /\ ret.op = "analyze_weaknesses"
    /\ Len(args.user_data.rows) = 6
    /\ GroupRatings(args.user_data.rows, AllTopics[4]) = <<3, 5, 5>>
    /\ GroupDays(args.user_data.rows, AllTopics[4]) = 3
    /\ ret.value.weak_topics = <<>>

\* a group with a mean below 3.0 that rounds to 3.0, not listed
C23_WitnessRoundedMean ==
    /\ ret.op = "analyze_weaknesses"
    /\ Len(args.user_data.rows) = ManySessions
    /\ MeanBelowThree(GroupRatings(args.user_data.rows, AllTopics[4]))
    /\ ret.value.weak_topics = <<>>

\* a group of 3 sessions rated 1 in a log of 4 sessions, not listed
C23_WitnessShortLog ==
    /\ ret.op = "analyze_weaknesses"
    /\ Len(args.user_data.rows) = 4
    /\ GroupRatings(args.user_data.rows, AllTopics[4]) = <<1, 1, 1>>
    /\ ret.value.weak_topics = <<>>

(***************************************************************************)
(* The forecast against the history (specification SpecForecast).          *)
(***************************************************************************)
\* the last Historical value of a returned series
LastHistorical == ret.value.forecast_df[Len(ExpenseDates)].amount

\* the Forecast points of a returned series
ForecastPoints ==
    SubSeq(ret.value.forecast_df, Len(ExpenseDates) + 1, Len(ret.value.forecast_df))

\* C24: a Forecast value is lower than the last Historical cumulative value
\* only if the slope of the fitted line is negative.
C24_LowerForecastOnlyIfNegativeSlope ==
    (ret.op = "forecast_spending" /\ ~ret.value.forecast_df_is_None) =>
        \A j \in 1..Len(ForecastPoints) :
            SLess(ForecastPoints[j].amount, LastHistorical)
                => ret.value.model.coef_.neg

\* C24, amended: the slope of the fitted line is never negative, the Forecast
\* values never decrease from one day to the next, and a Forecast value is
\* lower than the last Historical value only if the fitted line itself is
\* below the last Historical value on the last historical day.
C24_LowerForecastOnlyIfLineBelowHistory ==
    (ret.op = "forecast_spending" /\ ~ret.value.forecast_df_is_None) =>
        LET model == ret.value.model
            last_day == ret.value.forecast_df[Len(ExpenseDates)].days
        IN  /\ ~model.coef_.neg
            /\ \A j \in 1..(Len(ForecastPoints) - 1) :
                   ~SLess(ForecastPoints[j + 1].amount, ForecastPoints[j].amount)
            /\ \A j \in 1..Len(ForecastPoints) :
                   SLess(ForecastPoints[j].amount, LastHistorical)
                       => SLess(predict(model, last_day), LastHistorical)

\* a forecast below the last Historical value from a line with a positive
\* slope: 1 rupee on each of three days, then 6 rupees on a fourth
C24_Witness ==
    /\ ret.op = "forecast_spending"
    /\ ~ret.value.forecast_df_is_None
    /\ Len(ExpenseDates) = 4
    /\ SpentUpTo(ExpenseDates[4]) = 9
    /\ ~ret.value.model.coef_.neg
    /\ ~FIsZero(ret.value.model.coef_.abs)
    /\ SLess(ForecastPoints[1].amount, LastHistorical)

(***************************************************************************)
(* Specification SpecTrend: _predict_performance_trends called on a study  *)
(* table.  The log has one session a day on up to MaxTrendDays days, the   *)
(* earlier days with one rating and duration and the later days with       *)
(* another, and up to MaxSameDaySessions - 1 further sessions on the first *)
(* or the last day; the rows are listed oldest or newest first.            *)
(***************************************************************************)
trend_log(n, split, old_rating, recent_rating, old_duration, recent_duration) ==
    [i \in 1..n |->
        study_row(<<"Math", "Algebra">>, i,
                  IF i <= split THEN old_duration ELSE recent_duration,
                  IF i <= split THEN old_rating ELSE recent_rating)]

further_sessions(day, k, rating) ==
    [i \in 1..k |-> study_row(<<"Math", "Algebra">>, day, 45, rating)]

TrendLogs ==
    {LET log == trend_log(n, split, old_rating, recent_rating,
                          old_duration, recent_duration)
                \o further_sessions(IF on_first THEN 1 ELSE n, IF n = 0 THEN 0 ELSE k, 5)
     IN  IF newest_first THEN Reverse(log) ELSE log :
        n \in 0..MaxTrendDays, split \in {1, 3},
        old_rating \in {2, 4}, recent_rating \in {2, 4, 5},
        old_duration \in {30, 60}, recent_duration \in {30, 60},
        k \in 0..(MaxSameDaySessions - 1), on_first \in BOOLEAN,
        newest_first \in BOOLEAN}

InitTrend ==
    /\ NoLiveSession
    /\ today = MaxTrendDays
    /\ total_xp = 0
    /\ xp_gained = 0
    /\ ret = NoCall
    /\ \E log \in TrendLogs :
           /\ user_data = StudyTable(log)
           /\ args = [op |-> "_predict_performance_trends", user_data |-> user_data]

CallPredictPerformanceTrends ==
    /\ args.op = "_predict_performance_trends"
    /\ ret = NoCall
    /\ ret' = [op |-> "_predict_performance_trends",
               value |-> _predict_performance_trends(user_data.rows)]
    /\ UNCHANGED <<session_state, clock, timers, auth_data, user_data, today, total_xp, xp_gained, args>>

NextTrend == CallPredictPerformanceTrends

SpecTrend == InitTrend /\ [][NextTrend]_vars

RECURSIVE Factorial(_)
Factorial(n) == IF n <= 1 THEN 1 ELSE n * Factorial(n - 1)

\* a common multiple of the numbers of sessions a day can hold
DayScale == Factorial(MaxSameDaySessions)

\* the distinct study days of the table the call was given, in date order
StudyDays == SortedAsc(Range(Column(args.user_data.rows, "date")))

\* DayScale times the mean confidence of day d, and the total duration of
\* day d, in exact arithmetic
ScaledDayConfidence(d) ==
    LET that_day(r) == r.date = d
        ratings == Column(SelectSeq(args.user_data.rows, that_day), "confidence_rating")
    IN  (DayScale * SeqSum(ratings)) \div Len(ratings)

DayDuration(d) ==
    LET that_day(r) == r.date = d
    IN  SeqSum(Column(SelectSeq(args.user_data.rows, that_day), "duration_minutes"))

\* the sum of the last 7 values of q minus the sum of its first 7 values
RecentMinusOlder(q) == SeqSum(Tail7(q)) - SeqSum(Head7(q))

\* a float is within 2^-30 of an int n >= 0
NearInt(x, n) == FLess(FDiff(x, FromInt(n)).abs, [m |-> <<1>>, e |-> 0 - 30])

\* a signed float s is D / q up to float rounding, D an int and q > 0
IsQuotient(s, D, q) ==
    /\ D /= 0 => (s.neg <=> D < 0)
    /\ NearInt(FMul(s.abs, FromInt(q)), Abs(D))

\* C25 (as stated, the rows being the sessions of the log sorted by date):
\* insufficient_history with fewer than 7 distinct study days; otherwise the
\* confidence trend is the mean confidence of the most recent 7 sessions
\* minus that of the earliest 7 sessions, and the time trend the same for the
\* duration.
C25_TrendsOverSessions ==
    ret.op = "_predict_performance_trends" =>
        LET sorted == sort_values_date(args.user_data.rows)
        IN  /\ ret.value.status = "insufficient_history" <=> Len(StudyDays) < 7
            /\ Len(StudyDays) >= 7 =>
                   /\ IsQuotient(ret.value.confidence_trend,
                                 RecentMinusOlder(Column(sorted, "confidence_rating")), 7)
                   /\ IsQuotient(ret.value.time_trend,
                                 RecentMinusOlder(Column(sorted, "duration_minutes")), 7)

\* C25, amended: insufficient_history with fewer than 7 distinct study days;
\* otherwise the confidence trend is the mean, over the most recent 7 study
\* days, of the day's mean confidence minus the same mean over the earliest 7
\* study days, and the time trend is that difference for the day's total
\* duration; a positive value means the recent days are higher.
C25_TrendsOverStudyDays ==
    ret.op = "_predict_performance_trends" =>
        /\ ret.value.status = "insufficient_history" <=> Len(StudyDays) < 7
        /\ Len(StudyDays) >= 7 =>
               /\ ret.value.status = "success"
               /\ IsQuotient(ret.value.confidence_trend,
                             RecentMinusOlder([k \in 1..Len(StudyDays) |->
                                                  ScaledDayConfidence(StudyDays[k])]),
                             7 * DayScale)
               /\ IsQuotient(ret.value.time_trend,
                             RecentMinusOlder([k \in 1..Len(StudyDays) |->
                                                  DayDuration(StudyDays[k])]),
                             7)

\* 9 study days whose last day holds two sessions, listed newest first: both
\* trends are positive
C25_Witness ==
    /\ ret.op = "_predict_performance_trends"
    /\ Len(StudyDays) = 9
    /\ Len(args.user_data.rows) = 10
    /\ args.user_data.rows[1].date = 9
    /\ args.user_data.rows[2].date = 9
    /\ ret.value.status = "success"
    /\ ~ret.value.confidence_trend.neg
    /\ ret.value.confidence_trend.abs /= FZero
    /\ ~ret.value.time_trend.neg
    /\ ret.value.time_trend.abs /= FZero

\* 7 sessions on 6 study days: insufficient history
C25_WitnessFewDays ==
    /\ ret.op = "_predict_performance_trends"
    /\ Len(StudyDays) = 6
    /\ Len(args.user_data.rows) = 7
    /\ ret.value = [status |-> "insufficient_history"]

\* a declining confidence trend
C25_WitnessDecline ==
    /\ ret.op = "_predict_performance_trends"
    /\ ret.value.status = "success"
    /\ ret.value.confidence_trend.neg

(***************************************************************************)
(* _log_and_reward_session under Spec: the XP reported for the session     *)
(* against the change of the total.                                        *)
(***************************************************************************)
\* C26: when a session is logged, the XP reported as gained equals the
\* amount by which calculate_total_xp of the log increases with the append.
C26_GainedIsTotalIncrease ==
    [][SessionRewarded' =>
           total_xp' - calculate_total_xp(user_data) = xp_gained']_vars

\* the level-up test of _log_and_reward_session announces a level-up exactly
\* when the level after the append is above the level before it
C26_LevelUpTestComparesTrueLevels ==
    [][SessionRewarded' =>
           ((get_level(total_xp') > get_level(total_xp' - xp_gained'))
            <=> (get_level(total_xp') >
                     get_level(calculate_total_xp(user_data))))]_vars

(***************************************************************************)
(* Specification SpecLiveSession: one browser session of the application.  *)
(* auth_data holds the accounts and user_data maps every username that has *)
(* a study file to its log.  The clock advances by one minute at a time up *)
(* to MaxClock, at most MaxTimers live timers are started and the logs     *)
(* hold at most MaxSessionRows rows, a timer being logged no more often.    *)
(* Every action is one run of the script caused by a click (for            *)
(* TimerExpires, by the one-second rerun of the tracker; for ShowMainApp,  *)
(* by a change of page).  A run is ended at its next access to             *)
(* st.session_state or call of st.* when another event is pending, so a    *)
(* handler that writes several keys of the state has one outcome for each  *)
(* number of writes done: its parameter writes.  A run ended before its    *)
(* first write of data or state changes nothing and is no step.  The XP    *)
(* figures a run shows are no state of the browser session;                *)
(* LogAndRewardSession of Spec models them.                                *)
(***************************************************************************)
Users == {"asha", "ravi"}

\* the subject typed into the start form, as a sequence of characters
SubjectInputs == {<<>>, <<" ">>, <<" ", "P">>}

\* the "Custom" durations of the start form used here, in minutes
LiveDurations == {1, 2}

LiveRatings == {5}

\* what is typed into the form of a past session
ManualSubjects == {<<>>, <<"M">>}

ManualChapters == {<<" ">>, <<"A">>}

ManualDurations == {45, 1500}

\* str.strip() on a sequence of characters
RECURSIVE lstrip(_)
lstrip(q) == IF q /= <<>> /\ Head(q) = " " THEN lstrip(Tail(q)) ELSE q

RECURSIVE rstrip(_)
rstrip(q) ==
    IF q /= <<>> /\ q[Len(q)] = " " THEN rstrip(SubSeq(q, 1, Len(q) - 1)) ELSE q

strip(q) == rstrip(lstrip(q))

\* the Start Session button that is always enabled
start_never_disabled(subject) == FALSE

\* disabled=(not subject.strip()) of the Start Session button
start_disabled(subject) == strip(subject) = <<>>

\* validate_study_session: the errors, in the order they are appended
validate_study_session(subject, chapter, duration, confidence) ==
    (IF strip(subject) = <<>> THEN <<"Subject is required">> ELSE <<>>)
    \o (IF strip(chapter) = <<>> THEN <<"Chapter/Topic is required">> ELSE <<>>)
    \o (IF duration <= 0 THEN <<"Duration must be greater than 0">>
        ELSE IF duration > 1440 THEN <<"Duration cannot exceed 24 hours">>
        ELSE <<>>)
    \o (IF confidence \notin 1..5
        THEN <<"Confidence rating must be between 1 and 5">> ELSE <<>>)

logged_in == session_state.current_user /= None

\* st.session_state after the first n of the writes of a handler, each write
\* a pair of the key and the value assigned to it
RECURSIVE written(_, _, _)
written(state, writes, n) ==
    IF n = 0 THEN state
    ELSE [written(state, writes, n - 1) EXCEPT ![writes[n][1]] = writes[n][2]]

\* the study files once show_main_app has read the current user's log:
\* _get_generic_data creates the file of a user who has none
study_files ==
    IF logged_in /\ session_state.current_user \notin DOMAIN user_data
    THEN [u \in DOMAIN user_data \cup {session_state.current_user} |->
             IF u \in DOMAIN user_data THEN user_data[u] ELSE <<>>]
    ELSE user_data

\* the rows in all the study files
RECURSIVE rows_of(_)
rows_of(names) ==
    IF names = {} THEN 0
    ELSE LET u == CHOOSE n \in names : TRUE
         IN  Len(user_data[u]) + rows_of(names \ {u})

logged_rows == rows_of(DOMAIN user_data)

InitLiveSession ==
    /\ session_state = initial_session_state
    /\ clock = 0
    /\ timers = <<>>
    /\ auth_data \in SUBSET Users
    /\ user_data = [u \in auth_data |-> <<>>]
    /\ today = 0
    /\ total_xp = 0
    /\ xp_gained = 0
    /\ args = NoCall
    /\ ret = NoCall

\* Login form, authentication succeeding; without any account the page
\* shows no form
Login(selected_user) ==
    /\ ~logged_in
    /\ auth_data /= {}
    /\ selected_user \in auth_data
    /\ session_state' = [session_state EXCEPT !.current_user = selected_user]
    /\ UNCHANGED <<user_data, today, total_xp, xp_gained, args, ret, clock,
                   timers, auth_data>>

\* Sign Up form, create_user succeeding for a username not yet taken; the
\* form is not reached when there is no account (show_user_selection returns
\* in the Login tab).  The account is created, and the run is ended before
\* or after it has written current_user.
SignUp(new_username, writes) ==
    /\ ~logged_in
    /\ auth_data /= {}
    /\ new_username \notin auth_data
    /\ writes \in 0..1
    /\ auth_data' = auth_data \cup {new_username}
    /\ user_data' = [u \in DOMAIN user_data \cup {new_username} |->
                        IF u = new_username THEN <<>> ELSE user_data[u]]
    /\ session_state' = written(session_state,
                                <<<<"current_user", new_username>>>>, writes)
    /\ UNCHANGED <<today, total_xp, xp_gained, args, ret, clock, timers>>

\* a run of show_main_app with no button pressed, for a user without a
\* study file: the sidebar reads the log
ShowMainApp ==
    /\ logged_in
    /\ session_state.current_user \notin DOMAIN user_data
    /\ user_data' = study_files
    /\ UNCHANGED <<today, total_xp, xp_gained, args, ret, clock, timers,
                   auth_data, session_state>>

\* how the last timer of the history ended
timer_ended(how) ==
    IF timers /= <<>> /\ timers[Len(timers)].ended = "running"
    THEN [timers EXCEPT ![Len(timers)].ended = how]
    ELSE timers

\* the Logout button of the sidebar: current_user, timer_running and
\* session_just_completed are reset in this order, the run being ended after
\* any of the three writes
Logout(writes) ==
    /\ logged_in
    /\ writes \in 1..3
    /\ user_data' = study_files
    /\ session_state' = written(session_state,
                                <<<<"current_user", None>>,
                                  <<"timer_running", FALSE>>,
                                  <<"session_just_completed", FALSE>>>>, writes)
    /\ timers' = IF writes >= 2 THEN timer_ended("logout") ELSE timers
    /\ UNCHANGED <<today, total_xp, xp_gained, args, ret, clock, auth_data>>

\* DELETE MY ACCOUNT AND ALL DATA on the Settings page, delete_user_data
\* succeeding; the run is completed, or ended at st.success before
\* current_user is reset
DeleteAccount(completed) ==
    /\ logged_in
    /\ user_data' = [u \in DOMAIN user_data \ {session_state.current_user} |->
                        user_data[u]]
    /\ auth_data' = auth_data \ {session_state.current_user}
    /\ session_state' = IF completed
                        THEN [session_state EXCEPT !.current_user = None]
                        ELSE session_state
    /\ UNCHANGED <<today, total_xp, xp_gained, args, ret, clock, timers>>

\* the Start Session button of the start form: timer_running, timer_duration,
\* timer_subject and timer_end_time are written in this order, the run being
\* ended after any of the four writes; the timer counts as started once
\* timer_running is written
StartSession(subject, duration, writes) ==
    /\ logged_in
    /\ ~session_state.session_just_completed
    /\ ~session_state.timer_running
    /\ ~start_disabled(subject)
    /\ Len(timers) < MaxTimers
    /\ writes \in 1..4
    /\ user_data' = study_files
    /\ session_state' = written(session_state,
                                <<<<"timer_running", TRUE>>,
                                  <<"timer_duration", duration>>,
                                  <<"timer_subject", subject>>,
                                  <<"timer_end_time", clock + duration>>>>,
                                writes)
    /\ timers' = Append(timers, [started_by |-> session_state.current_user,
                                 ended |-> "running",
                                 logged_to |-> <<>>])
    /\ UNCHANGED <<today, total_xp, xp_gained, args, ret, clock, auth_data>>

\* the tracker rendered with no time left: timer_running is reset and then
\* session_just_completed is set, the run being ended after either write
timer_expired(writes) ==
    /\ writes \in 1..2
    /\ session_state' = written(session_state,
                                <<<<"timer_running", FALSE>>,
                                  <<"session_just_completed", TRUE>>>>, writes)
    /\ timers' = timer_ended("expired")

\* the tracker of a running timer subtracts the time from timer_end_time,
\* which raises TypeError while timer_end_time is None: nothing of the page
\* below the sidebar is rendered then
tracker_raises == session_state.timer_end_time = NoEndTime

\* the one-second rerun of the running tracker finding no time left
TimerExpires(writes) ==
    /\ logged_in
    /\ ~session_state.session_just_completed
    /\ session_state.timer_running
    /\ ~tracker_raises
    /\ session_state.timer_end_time <= clock
    /\ user_data' = study_files
    /\ timer_expired(writes)
    /\ UNCHANGED <<today, total_xp, xp_gained, args, ret, clock, auth_data>>

\* st.progress gets 1.0 - time_left / (timer_duration * 60): the division
\* raises for a duration of 0 and st.progress raises for a value below 0, and
\* the Give Up button below it is not rendered then
progress_raises ==
    \/ session_state.timer_duration = 0
    \/ session_state.timer_end_time - clock > session_state.timer_duration

\* the Give Up button: the rerun cancels the timer if time is left, and
\* otherwise finds the timer expired; timer_running is reset and then
\* timer_end_time, the run being ended after either write
GiveUp(writes) ==
    /\ logged_in
    /\ ~session_state.session_just_completed
    /\ session_state.timer_running
    /\ ~tracker_raises
    /\ writes \in 1..2
    /\ user_data' = study_files
    /\ IF session_state.timer_end_time > clock
       THEN /\ ~progress_raises
            /\ session_state' = written(session_state,
                                        <<<<"timer_running", FALSE>>,
                                          <<"timer_end_time", NoEndTime>>>>,
                                        writes)
            /\ timers' = timer_ended("given_up")
       ELSE timer_expired(writes)
    /\ UNCHANGED <<today, total_xp, xp_gained, args, ret, clock, auth_data>>

LiveSessionChapter == <<"L", "i", "v", "e", " ", "S", "e", "s", "s", "i", "o", "n">>

\* the row log_study_session appends
session_row(subject, chapter, duration, confidence, date) ==
    [date |-> date, subject |-> subject, chapter |-> chapter,
     duration_minutes |-> duration, confidence_rating |-> confidence]

\* the Log Session & Get XP button: _log_and_reward_session for the current
\* user with the subject and duration of the timer, then
\* session_just_completed, timer_subject and timer_duration are cleared in
\* this order; the run is ended after the append and any number of the three
\* writes
LogSession(confidence, writes) ==
    /\ logged_in
    /\ session_state.session_just_completed
    /\ logged_rows < MaxSessionRows
    /\ Len(timers[Len(timers)].logged_to) < MaxSessionRows
    /\ user_data' = [study_files EXCEPT ![session_state.current_user] =
                        Append(@, session_row(session_state.timer_subject,
                                              LiveSessionChapter,
                                              session_state.timer_duration,
                                              confidence, today))]
    /\ timers' = [timers EXCEPT ![Len(timers)].logged_to =
                     Append(@, session_state.current_user)]
    /\ writes \in 0..3
    /\ session_state' = written(session_state,
                                <<<<"session_just_completed", FALSE>>,
                                  <<"timer_subject", <<>>>>,
                                  <<"timer_duration", 0>>>>, writes)
    /\ UNCHANGED <<today, total_xp, xp_gained, args, ret, clock, auth_data>>

\* the Log Session button of the form of a past session, which is rendered
\* unless the tracker reruns for a running timer: _log_and_reward_session
\* with the values of the form when they are valid.  Nothing of the state is
\* written after the append, so a run ended at st.success leaves the same
\* state as a completed one.
ManualLog(subject, chapter, duration, confidence, date) ==
    /\ logged_in
    /\ session_state.session_just_completed \/ ~session_state.timer_running
    /\ validate_study_session(subject, chapter, duration, confidence) = <<>>
    /\ logged_rows < MaxSessionRows
    /\ user_data' = [study_files EXCEPT ![session_state.current_user] =
                        Append(@, session_row(subject, chapter, duration,
                                              confidence, date))]
    /\ UNCHANGED <<today, total_xp, xp_gained, args, ret, clock, auth_data,
                   timers, session_state>>

\* a minute passes
Tick ==
    /\ clock < MaxClock
    /\ clock' = clock + 1
    /\ UNCHANGED <<user_data, today, total_xp, xp_gained, args, ret,
                   session_state, timers, auth_data>>

NextLiveSession ==
    \/ \E selected_user \in Users : Login(selected_user)
    \/ \E new_username \in Users, writes \in 0..1 : SignUp(new_username, writes)
    \/ ShowMainApp
    \/ \E writes \in 1..3 : Logout(writes)
    \/ \E completed \in BOOLEAN : DeleteAccount(completed)
    \/ \E subject \in SubjectInputs, duration \in LiveDurations, writes \in 1..4 :
           StartSession(subject, duration, writes)
    \/ \E writes \in 1..2 : TimerExpires(writes)
    \/ \E writes \in 1..2 : GiveUp(writes)
    \/ \E confidence \in LiveRatings, writes \in 0..3 :
           LogSession(confidence, writes)
    \/ \E subject \in ManualSubjects, chapter \in ManualChapters,
          duration \in ManualDurations :
           ManualLog(subject, chapter, duration, 4, today)
    \/ Tick

SpecLiveSession == InitLiveSession /\ [][NextLiveSession]_vars

\* C27: whenever a user becomes logged in, timer_running and
\* session_just_completed are both false, so that a live timer started under
\* one user is never written to another user's log.
C27_NoTimerStateAtLogin ==
    [][(session_state.current_user = None /\ session_state'.current_user /= None)
       => (~session_state'.timer_running
           /\ ~session_state'.session_just_completed)]_vars

\* every live timer that was logged was written to the log of the user who
\* started it
C27_TimerLoggedToItsStarter ==
    \A i \in 1..Len(timers) :
        \A k \in 1..Len(timers[i].logged_to) :
            timers[i].logged_to[k] = timers[i].started_by

\* C28: timer_running and session_just_completed are never both true, and
\* while timer_running holds, timer_end_time is set and timer_subject is not
\* blank.
C28_TimerStateConsistent ==
    /\ ~(session_state.timer_running /\ session_state.session_just_completed)
    /\ session_state.timer_running =>
           /\ session_state.timer_end_time /= NoEndTime
           /\ strip(session_state.timer_subject) /= <<>>

\* a timer running with time left, started after a minute had passed
C28_Witness ==
    /\ session_state.timer_running
    /\ Len(timers) = 1
    /\ timers[1].ended = "running"
    /\ clock > 0
    /\ session_state.timer_end_time > clock
    /\ session_state.timer_subject = <<" ", "P">>

\* a timer expired and waiting to be logged
C28_WitnessCompleted ==
    /\ session_state.session_just_completed
    /\ ~session_state.timer_running
    /\ session_state.timer_end_time <= clock

\* a timer still running after the account was deleted
C28_WitnessNoUser ==
    /\ session_state.timer_running
    /\ session_state.current_user = None

\* the last live timer was written to a study log in this step
SessionLogged ==
    /\ timers /= <<>>
    /\ Len(timers') = Len(timers)
    /\ Len(timers'[Len(timers)].logged_to) > Len(timers[Len(timers)].logged_to)

\* C29: each started live timer leads to at most one logged session: a
\* timer is logged at most once and only if it expired, never after Give Up
\* or Logout; a live session is logged only in a step that starts in the
\* just-completed state and clears it; and a step that stops a running timer
\* logs nothing.
C29_AtMostOneLogPerTimer ==
    /\ [](\A i \in 1..Len(timers) :
              /\ Len(timers[i].logged_to) <= 1
              /\ timers[i].logged_to /= <<>> => timers[i].ended = "expired")
    /\ [][/\ SessionLogged =>
                 /\ session_state.session_just_completed
                 /\ ~session_state'.session_just_completed
                 /\ session_state.timer_end_time <= clock
                 /\ Len(timers[Len(timers)].logged_to) = 0
          /\ (session_state.timer_running /\ ~session_state'.timer_running) =>
                 ~SessionLogged]_vars

\* one timer written twice into the log of the user who started it
C29_TimerLoggedTwice ==
    /\ timers /= <<>>
    /\ timers[1].logged_to = <<timers[1].started_by, timers[1].started_by>>
    /\ timers[1].started_by \in DOMAIN user_data
    /\ Len(user_data[timers[1].started_by]) = 2
    /\ user_data[timers[1].started_by][1] = user_data[timers[1].started_by][2]

(***************************************************************************)
(* Specification SpecSignals: analyze_weaknesses on logs of one session a  *)
(* day over 5 to MaxSignalDays days, the days going in turn to 1, 2 or 3   *)
(* topics; the first two days have one rating and duration and the later   *)
(* days another.                                                           *)
(***************************************************************************)
signal_log(n, groups, old_rating, recent_rating, old_duration, recent_duration) ==
    [i \in 1..n |->
        study_row(AllTopics[((i - 1) % groups) + 1], i,
                  IF i <= 2 THEN old_duration ELSE recent_duration,
                  IF i <= 2 THEN old_rating ELSE recent_rating)]

SignalTables ==
    {StudyTable(signal_log(n, groups, old_rating, recent_rating,
                           old_duration, recent_duration)) :
        n \in 5..MaxSignalDays, groups \in 1..3,
        old_rating \in {1, 5}, recent_rating \in {1, 5},
        old_duration \in {10, 120}, recent_duration \in {10, 30, 120}}

InitSignals ==
    /\ NoLiveSession
    /\ today = MaxSignalDays
    /\ total_xp = 0
    /\ xp_gained = 0
    /\ ret = NoCall
    /\ user_data \in SignalTables
    /\ args = [op |-> "analyze_weaknesses", user_data |-> user_data]

NextSignals == CallAnalyzeWeaknesses

SpecSignals == InitSignals /\ [][NextSignals]_vars

BestWeekdayText ==
    "You perform best on {}s - consider scheduling important topics then"

SessionLengthTexts ==
    {"Consider longer study sessions (20-45 minutes) for better retention",
     "Break down long sessions into smaller chunks with breaks"}

ConfidenceTrendTexts ==
    {"Your confidence has been declining recently - consider reviewing fundamentals",
     "Great progress! Your confidence is improving - keep up the momentum"}

TimeTrendText ==
    "You've been studying less lately - try to maintain consistency"

SignalTexts ==
    {BestWeekdayText, TimeTrendText} \cup SessionLengthTexts \cup ConfidenceTrendTexts

\* the texts of the recommendations the call returned
ReturnedTexts ==
    {ret.value.recommendations[k].text : k \in 1..Len(ret.value.recommendations)}

\* C30: with fewer than 3 distinct (subject, chapter) groups in the log,
\* analyze_weaknesses returns no best-weekday, session-length,
\* confidence-trend or time-trend recommendation, however many sessions and
\* study days the log holds.
C30_NoSignalsBelowThreeGroups ==
    (ret.op = "analyze_weaknesses" /\ Len(GroupKeys(args.user_data.rows)) < 3)
        => ReturnedTexts \cap SignalTexts = {}

\* 9 or more daily sessions of 10 minutes in 2 groups, the confidence
\* falling from 5 to 1: no signal is returned
C30_Witness ==
    /\ ret.op = "analyze_weaknesses"
    /\ Len(GroupKeys(args.user_data.rows)) = 2
    /\ Len(args.user_data.rows) >= 9
    /\ \A i \in 1..Len(args.user_data.rows) :
           args.user_data.rows[i].duration_minutes = 10
    /\ args.user_data.rows[1].confidence_rating = 5
    /\ args.user_data.rows[Len(args.user_data.rows)].confidence_rating = 1
    /\ ReturnedTexts \cap SignalTexts = {}
    /\ ReturnedTexts /= {}

\* the same kind of log in 3 groups: the weekday, session-length and
\* confidence-trend signals are returned
C30_WitnessThreeGroups ==
    /\ ret.op = "analyze_weaknesses"
    /\ Len(GroupKeys(args.user_data.rows)) = 3
    /\ BestWeekdayText \in ReturnedTexts
    /\ ReturnedTexts \cap SessionLengthTexts /= {}
    /\ ReturnedTexts \cap ConfidenceTrendTexts /= {}

\* a time-trend signal returned for a log in 3 groups
C30_WitnessTimeTrend ==
    /\ ret.op = "analyze_weaknesses"
    /\ Len(GroupKeys(args.user_data.rows)) = 3
    /\ TimeTrendText \in ReturnedTexts
====
